---- MODULE Spec2Model ----
(***************************************************************************)
(* A model of the build orchestrator of undox: the path mapper             *)
(* (build/paths.rs), the invalidation planner (build/cache.rs), the change *)
(* classifier (build/watch.rs) and the document pipeline                   *)
(* (build/pipeline).                                                       *)
(*                                                                         *)
(* Strings are sequences of one-character strings, so that the string      *)
(* operations of the code (trim, ends_with, contains, push, pop) are       *)
(* computed and not assumed.                                               *)
(***************************************************************************)
EXTENDS Integers, Sequences, FiniteSets, TLC

VARIABLES
    \* path mapper
    relPath,        \* source-relative path of the discovered file
    urlPrefix,      \* URL prefix of its source
    url,            \* URL path computed for it (or handed to the write stage)
    pstep,          \* "start", "doc", "static", "written"
    \* output directory
    files,          \* paths written under the output directory
    \* build cache
    documents,              \* BuildCache.documents: source path -> cached document
    documents_by_source,    \* BuildCache.documents_by_source: source -> paths
    batch,                  \* the changes of the last invalidation_scope call
    scope,                  \* what that call returned
    \* change classifier
    source_dirs,    \* PathClassifier.source_dirs: source name -> directory
    theme_dir,      \* PathClassifier.theme_dir
    config_path,    \* PathClassifier.config_path
    changed,        \* the path and the deleted flag of the last classify call
    classified,     \* what that call returned
    \* pipeline
    stages,             \* Pipeline.stages, in order
    finalize_stages,    \* Pipeline.finalize_stages, in order
    docs,               \* the batch of ProcessingDocuments of the run
    phase,              \* "new", "running", "ok", "err", "panicked"
    stageIdx,           \* the stage Pipeline::run is at
    finIdx,             \* the finalize stage Pipeline::run is at
    error,              \* the PipelineError the run returned
    log,                \* what was invoked, in order
    \* child configuration
    child,          \* the ChildConfig resolve is called on
    parent_file,    \* what undox.yaml at the parent's path holds
    resolved,       \* what ChildConfig::resolve returned
    \* navigation
    content_items,      \* the items discovery found, as a set
    resolved_sources,   \* the resolved sources, in configuration order
    nav_results,        \* what the calls of build_navigation_by_source returned
    \* build and serve
    source_tree,    \* the content of the sources: item -> text
    output_directory,   \* the output directory: whether it exists, path -> text
    last_output,    \* the output directory as the last successful build left it
    build_result,   \* what the last call of Builder::build returned
    build_count,    \* number of builds so far
    serving,        \* whether serve is watching
    \* source resolution
    src_config,     \* the SourceConfig ResolvedSource::resolve is called on
    fs_entries,     \* the filesystem: path -> "file" or "dir"
    child_yaml,     \* what undox.yaml in the directory of the source holds
    source_result,  \* what ResolvedSource::resolve returned
    \* watcher and rebuild loop
    watch_channel,  \* the mpsc channel: the events sent and not yet received
    watch_sent,     \* every event the watcher callback sent, in order, with
                    \* whether a rebuild was running when it was sent
    watch_received, \* every event the rebuild loop received, in order
    loop_state,     \* the rebuild loop: where it is, the rebuilds it started
    callbacks,      \* number of calls of the debouncer callback so far
    \* clean command
    clean_args,     \* the configuration and the arguments clean runs with
    clean_fs,       \* the directories that exist
    clean_deleted,  \* the paths clean removed
    clean_state     \* "start", "ok", "err", "panicked"

pathVars == <<relPath, urlPrefix, url, pstep>>
cacheVars == <<documents, documents_by_source, batch, scope>>

classVars == <<source_dirs, theme_dir, config_path, changed, classified>>

pipeVars == <<stages, finalize_stages, docs, phase, stageIdx, finIdx, error, log>>

resolveVars == <<child, parent_file, resolved>>

\* the components that come after the pipeline
navVars == <<content_items, resolved_sources, nav_results>>
siteVars == <<source_tree, output_directory, last_output, build_result, build_count, serving>>
sourceVars == <<src_config, fs_entries, child_yaml, source_result>>
watchVars == <<watch_channel, watch_sent, watch_received, loop_state, callbacks>>
cleanVars == <<clean_args, clean_fs, clean_deleted, clean_state>>
laterVars == <<sourceVars, watchVars, cleanVars>>
restVars == <<resolveVars, navVars, siteVars, laterVars>>

vars == <<pathVars, files, cacheVars, classVars, pipeVars, restVars>>

\* what the steps of one component leave alone
notPathVars == <<cacheVars, classVars, pipeVars, restVars>>
notCacheVars == <<pathVars, files, classVars, pipeVars, restVars>>
notClassVars == <<pathVars, files, cacheVars, pipeVars, restVars>>
notPipeVars == <<pathVars, cacheVars, classVars, restVars>>
notResolveVars == <<pathVars, files, cacheVars, classVars, pipeVars, navVars, siteVars,
                    laterVars>>
notNavVars == <<pathVars, files, cacheVars, classVars, pipeVars, resolveVars, siteVars,
                laterVars>>
notSiteVars == <<pathVars, files, cacheVars, classVars, pipeVars, resolveVars, navVars,
                 laterVars>>
firstVars == <<pathVars, files, cacheVars, classVars, pipeVars, resolveVars, navVars, siteVars>>
notSourceVars == <<firstVars, watchVars, cleanVars>>
notWatchVars == <<firstVars, sourceVars, cleanVars>>
notCleanVars == <<firstVars, sourceVars, watchVars>>

-----------------------------------------------------------------------------
(* Strings *)

SLASH == "/"
DOT == "."
BACKSLASH == "\\"

S_index == <<"i", "n", "d", "e", "x">>
S_slash_index == <<SLASH>> \o S_index
S_index_html == <<"i", "n", "d", "e", "x", ".", "h", "t", "m", "l">>
S_md == <<"m", "d">>

\* a value not computed yet
Unset == <<"unset">>

\* str::ends_with
EndsWith(s, suffix) ==
    /\ Len(s) >= Len(suffix)
    /\ SubSeq(s, Len(s) - Len(suffix) + 1, Len(s)) = suffix

\* str::starts_with
StartsWith(s, prefix) ==
    /\ Len(s) >= Len(prefix)
    /\ SubSeq(s, 1, Len(prefix)) = prefix

\* str::contains(char)
Contains(s, c) == \E i \in 1..Len(s) : s[i] = c

\* str::trim_end_matches(pattern): the pattern is removed repeatedly
RECURSIVE TrimEndMatches(_, _)
TrimEndMatches(s, pat) ==
    IF Len(pat) > 0 /\ EndsWith(s, pat)
    THEN TrimEndMatches(SubSeq(s, 1, Len(s) - Len(pat)), pat)
    ELSE s

\* str::trim_start_matches(char): the character is removed repeatedly
RECURSIVE TrimStartMatches(_, _)
TrimStartMatches(s, c) ==
    IF Len(s) > 0 /\ s[1] = c
    THEN TrimStartMatches(Tail(s), c)
    ELSE s

\* str::replace(from, to) on characters
Replace(s, from, to) == [i \in 1..Len(s) |-> IF s[i] = from THEN to ELSE s[i]]

\* index of the last occurrence of c in s, 0 when there is none
LastIndexOf(s, c) ==
    IF Contains(s, c)
    THEN CHOOSE i \in 1..Len(s) : s[i] = c /\ \A j \in (i+1)..Len(s) : s[j] # c
    ELSE 0

-----------------------------------------------------------------------------
(* The components at rest: each specification below runs one component and *)
(* leaves the others as they are after construction.                       *)

\* HashMap::new
EmptyMap == [x \in {} |-> x]

\* no call of invalidation_scope yet
NoScope == [tag |-> "none"]

\* Option::None of classify
NoChange == [kind |-> "None"]

\* no call of classify yet
NotClassified == [path |-> <<>>, deleted |-> FALSE, called |-> FALSE]

\* nothing discovered, nothing written
PathIdle ==
    /\ relPath = Unset /\ urlPrefix = Unset /\ url = Unset /\ pstep = "idle"
    /\ files = {}

\* BuildCache::new
CacheIdle ==
    /\ documents = EmptyMap
    /\ documents_by_source = EmptyMap
    /\ batch = <<>>
    /\ scope = NoScope

\* no PipelineError
NoError == [variant |-> "none"]

\* no pipeline
PipeIdle ==
    /\ stages = <<>>
    /\ finalize_stages = <<>>
    /\ docs = <<>>
    /\ phase = "idle"
    /\ stageIdx = 0
    /\ finIdx = 0
    /\ error = NoError
    /\ log = <<>>

\* no classifier
ClassIdle ==
    /\ source_dirs = EmptyMap
    /\ theme_dir = <<>>
    /\ config_path = <<>>
    /\ changed = NotClassified
    /\ classified = NoChange

\* ChildConfig::resolve not called
NotResolved ==
    [ok |-> FALSE, variant |-> "none", message |-> "", config |-> <<>>,
     parent_path |-> <<>>]

\* no child configuration
ResolveIdle ==
    /\ child = Unset
    /\ parent_file = Unset
    /\ resolved = NotResolved

\* nothing discovered for the navigation
NavIdle ==
    /\ content_items = {}
    /\ resolved_sources = <<>>
    /\ nav_results = <<>>

\* an output directory that was never created
NoOutput == [exists |-> FALSE, files |-> EmptyMap]

\* no build yet
NotBuilt == [ok |-> FALSE, step |-> "none"]

\* no site
SiteIdle ==
    /\ source_tree = EmptyMap
    /\ output_directory = NoOutput
    /\ last_output = NoOutput
    /\ build_result = NotBuilt
    /\ build_count = 0
    /\ serving = FALSE

\* ResolvedSource::resolve not called
NotSourceResolved == [called |-> FALSE, ok |-> FALSE, variant |-> "none", path |-> <<>>,
                      nav |-> <<>>]

\* no source to resolve
SourceIdle ==
    /\ src_config = Unset
    /\ fs_entries = EmptyMap
    /\ child_yaml = Unset
    /\ source_result = NotSourceResolved

\* a rebuild loop that was not spawned
NoLoop == [pc |-> "none", started |-> <<>>, failed |-> 0, reloads |-> 0]

\* no watcher
WatchIdle ==
    /\ watch_channel = <<>>
    /\ watch_sent = <<>>
    /\ watch_received = <<>>
    /\ loop_state = NoLoop
    /\ callbacks = 0

\* no clean command
CleanIdle ==
    /\ clean_args = Unset
    /\ clean_fs = {}
    /\ clean_deleted = {}
    /\ clean_state = "idle"

LaterIdle == SourceIdle /\ WatchIdle /\ CleanIdle

RestIdle == ResolveIdle /\ NavIdle /\ SiteIdle /\ LaterIdle

\* the components of the first half as they are after construction
FirstIdle == PathIdle /\ CacheIdle /\ ClassIdle /\ PipeIdle /\ ResolveIdle /\ NavIdle /\ SiteIdle

-----------------------------------------------------------------------------
(* std::path *)

\* Path::file_name of a path that ends in a normal component
FileName(p) == SubSeq(p, LastIndexOf(p, SLASH) + 1, Len(p))

\* position, within the file name, of the dot that starts the extension; 0 when
\* the file name has no extension (no dot, or only a leading dot)
ExtensionDot(name) ==
    IF LastIndexOf(name, DOT) > 1 THEN LastIndexOf(name, DOT) ELSE 0

\* Path::extension, <<"none">> standing for None
NoExtension == <<"none">>
Extension(p) ==
    LET name == FileName(p)
        d == ExtensionDot(name)
    IN IF d = 0 THEN NoExtension ELSE SubSeq(name, d + 1, Len(name))

\* Path::with_extension("")
WithoutExtension(p) ==
    LET name == FileName(p)
        d == ExtensionDot(name)
    IN IF d = 0 THEN p ELSE SubSeq(p, 1, Len(p) - Len(name) + d - 1)

\* Path::join: an absolute right-hand side replaces the left-hand side
PathJoin(base, rel) ==
    IF StartsWith(rel, <<SLASH>>) THEN rel
    ELSE IF base = <<>> \/ EndsWith(base, <<SLASH>>) THEN base \o rel
    ELSE base \o <<SLASH>> \o rel

-----------------------------------------------------------------------------
(* build/paths.rs *)

source_path_to_url(path, url_prefix) ==
    LET url1 == IF url_prefix = <<>> \/ ~EndsWith(url_prefix, <<SLASH>>)
                THEN url_prefix \o <<SLASH>>
                ELSE url_prefix
        raw == Replace(WithoutExtension(path), BACKSLASH, SLASH)
        path_str == IF EndsWith(raw, S_slash_index) \/ raw = S_index
                    THEN TrimEndMatches(TrimEndMatches(raw, S_slash_index), S_index)
                    ELSE raw
        url2 == url1 \o path_str
        url3 == IF Len(url2) > 1 /\ EndsWith(url2, <<SLASH>>)
                THEN SubSeq(url2, 1, Len(url2) - 1)
                ELSE url2
    IN IF url3 = <<>> THEN <<SLASH>> ELSE url3

static_path_to_url(path, url_prefix) ==
    LET url1 == IF url_prefix = <<>> \/ ~EndsWith(url_prefix, <<SLASH>>)
                THEN url_prefix \o <<SLASH>>
                ELSE url_prefix
    IN url1 \o Replace(path, BACKSLASH, SLASH)

\* url_to_output_path that strips one leading slash only
url_to_output_path_strip_one(url_path, output_dir) ==
    LET trimmed == IF StartsWith(url_path, <<SLASH>>) THEN Tail(url_path)
                   ELSE url_path
    IN IF trimmed = <<>> THEN PathJoin(output_dir, S_index_html)
       ELSE IF Contains(trimmed, DOT) THEN PathJoin(output_dir, trimmed)
       ELSE PathJoin(PathJoin(output_dir, trimmed), S_index_html)

url_to_output_path(url_path, output_dir) ==
    LET trimmed == TrimStartMatches(url_path, SLASH)
    IN IF trimmed = <<>> THEN PathJoin(output_dir, S_index_html)
       ELSE IF Contains(trimmed, DOT) THEN PathJoin(output_dir, trimmed)
       ELSE PathJoin(PathJoin(output_dir, trimmed), S_index_html)

-----------------------------------------------------------------------------
(* build/format.rs: the format registry decides what a document is *)

S_markdown == <<"m", "a", "r", "k", "d", "o", "w", "n">>

\* the letters the inputs use, small and capital
SmallLetters == <<"a", "b", "c", "d", "e", "i", "m", "z">>
CapitalLetters == <<"A", "B", "C", "D", "E", "I", "M", "Z">>

\* str::to_lowercase on the letters the inputs use
LowerChar(c) ==
    IF \E i \in 1..Len(CapitalLetters) : CapitalLetters[i] = c
    THEN SmallLetters[CHOOSE i \in 1..Len(CapitalLetters) : CapitalLetters[i] = c]
    ELSE c
ToLowercase(s) == [i \in 1..Len(s) |-> LowerChar(s[i])]

\* MarkdownFormat::extensions of the default registry
RegisteredExtensions == {S_md, S_markdown}

\* FormatRegistry::is_document
is_document(path) ==
    /\ Extension(path) # NoExtension
    /\ ToLowercase(Extension(path)) \in RegisteredExtensions

-----------------------------------------------------------------------------
(* build/cache.rs *)

\* greatest length of a batch of changes
MaxBatch == 2
\* greatest length of a source's list in documents_by_source
MaxTracked == 2

SourceNames == {"cached", "cli"}
DocPaths == {"/w/cached/a.md", "/w/cli/b.md"}
StaticPaths == {"/w/cached/logo.png"}
TemplatePaths == {"/w/theme/page.html"}

Range(f) == { f[x] : x \in DOMAIN f }

\* enum ChangeKind
Config == [kind |-> "Config"]
ThemeConfig == [kind |-> "ThemeConfig"]
Template(p) == [kind |-> "Template", path |-> p]
Document(s, p, d) == [kind |-> "Document", source_name |-> s, path |-> p, deleted |-> d]
StaticFile(s, p, d) == [kind |-> "StaticFile", source_name |-> s, path |-> p, deleted |-> d]

ChangeKinds ==
    {Config, ThemeConfig}
    \cup { Template(p) : p \in TemplatePaths }
    \cup { Document("cached", "/w/cached/a.md", d) : d \in BOOLEAN }
    \cup { Document("cli", "/w/cli/b.md", d) : d \in BOOLEAN }
    \cup { StaticFile("cached", p, d) : p \in StaticPaths, d \in BOOLEAN }

\* the batches of at most n changes
RECURSIVE Batches(_)
Batches(n) ==
    IF n = 0 THEN { <<>> }
    ELSE Batches(n - 1) \cup
         { <<c>> \o b : c \in ChangeKinds, b \in { x \in Batches(n - 1) : Len(x) = n - 1 } }

\* enum InvalidationScope
Files(paths) == [tag |-> "Files", paths |-> paths]
Source(s) == [tag |-> "Source", source |-> s]
AllDocuments == [tag |-> "AllDocuments"]
Full == [tag |-> "Full"]

\* struct CachedDocument (the fields the cache reads)
CachedDocuments == [source_name : SourceNames, source_path : DocPaths]

\* the accumulators of invalidation_scope before the loop
ScanStart ==
    [full |-> FALSE, needs_all_documents |-> FALSE,
     sources_needing_nav_rebuild |-> <<>>, files_to_rebuild |-> <<>>]

\* one round of the loop of invalidation_scope; acc.full stands for the early
\* return of Full, after which nothing more is looked at
ScanStep_skip_deleted_static(cached, acc, change) ==
    IF acc.full THEN acc
    ELSE IF change.kind \in {"Config", "ThemeConfig"} THEN [acc EXCEPT !.full = TRUE]
    ELSE IF change.kind = "Template" THEN [acc EXCEPT !.needs_all_documents = TRUE]
    ELSE IF change.kind = "Document" THEN
        IF change.deleted \/ change.path \notin DOMAIN cached
        THEN IF change.source_name \in Range(acc.sources_needing_nav_rebuild)
             THEN acc
             ELSE [acc EXCEPT !.sources_needing_nav_rebuild = Append(@, change.source_name)]
        ELSE [acc EXCEPT !.files_to_rebuild = Append(@, change.path)]
    ELSE IF change.deleted THEN acc
    ELSE [acc EXCEPT !.files_to_rebuild = Append(@, change.path)]

ScanStep(cached, acc, change) ==
    IF acc.full THEN acc
    ELSE IF change.kind \in {"Config", "ThemeConfig"} THEN [acc EXCEPT !.full = TRUE]
    ELSE IF change.kind = "Template" THEN [acc EXCEPT !.needs_all_documents = TRUE]
    ELSE IF change.kind = "Document" THEN
        IF change.deleted \/ change.path \notin DOMAIN cached
        THEN IF change.source_name \in Range(acc.sources_needing_nav_rebuild)
             THEN acc
             ELSE [acc EXCEPT !.sources_needing_nav_rebuild = Append(@, change.source_name)]
        ELSE [acc EXCEPT !.files_to_rebuild = Append(@, change.path)]
    ELSE [acc EXCEPT !.files_to_rebuild = Append(@, change.path)]

\* the loop of invalidation_scope over the batch, in order
RECURSIVE ScanChanges(_, _, _)
ScanChanges(cached, acc, changes) ==
    IF changes = <<>> THEN acc
    ELSE ScanChanges(cached, ScanStep(cached, acc, Head(changes)), Tail(changes))

\* what invalidation_scope returns from the accumulators
ScopeOf_config_as_flag(acc) ==
    IF acc.needs_all_documents THEN AllDocuments
    ELSE IF acc.full THEN Full
    ELSE IF acc.sources_needing_nav_rebuild # <<>>
        THEN Source(Head(acc.sources_needing_nav_rebuild))
    ELSE Files(acc.files_to_rebuild)

ScopeOf_nav_before_template(acc) ==
    IF acc.full THEN Full
    ELSE IF acc.sources_needing_nav_rebuild # <<>>
        THEN Source(Head(acc.sources_needing_nav_rebuild))
    ELSE IF acc.needs_all_documents THEN AllDocuments
    ELSE Files(acc.files_to_rebuild)

ScopeOf_last_source(acc) ==
    IF acc.full THEN Full
    ELSE IF acc.needs_all_documents THEN AllDocuments
    ELSE IF acc.sources_needing_nav_rebuild # <<>>
        THEN Source(acc.sources_needing_nav_rebuild[Len(acc.sources_needing_nav_rebuild)])
    ELSE Files(acc.files_to_rebuild)

ScopeOf(acc) ==
    IF acc.full THEN Full
    ELSE IF acc.needs_all_documents THEN AllDocuments
    ELSE IF acc.sources_needing_nav_rebuild # <<>>
        THEN Source(Head(acc.sources_needing_nav_rebuild))
    ELSE IF acc.files_to_rebuild # <<>> THEN Files(acc.files_to_rebuild)
    ELSE Files(<<>>)

\* BuildCache::invalidation_scope
invalidation_scope(cached, changes) == ScopeOf(ScanChanges(cached, ScanStart, changes))

\* a function without the key k
Without(f, k) == [x \in DOMAIN f \ {k} |-> f[x]]
\* a function with the key k set to v
With(f, k, v) == [x \in DOMAIN f \cup {k} |-> IF x = k THEN v ELSE f[x]]
\* Vec::retain(|p| p != path)
RECURSIVE Retain(_, _)
Retain(list, path) ==
    IF list = <<>> THEN <<>>
    ELSE IF Head(list) = path THEN Retain(Tail(list), path)
    ELSE <<Head(list)>> \o Retain(Tail(list), path)

CacheInit ==
    /\ CacheIdle
    /\ ClassIdle
    /\ PipeIdle
    /\ PathIdle
    /\ RestIdle

\* BuildCache::update_document
update_document(doc) ==
    /\ IF doc.source_name \in DOMAIN documents_by_source
       THEN Len(documents_by_source[doc.source_name]) < MaxTracked
       ELSE TRUE
    /\ documents' = With(documents, doc.source_path, doc)
    /\ documents_by_source' =
            With(documents_by_source, doc.source_name,
                 IF doc.source_name \in DOMAIN documents_by_source
                 THEN Append(documents_by_source[doc.source_name], doc.source_path)
                 ELSE <<doc.source_path>>)
    /\ batch' = <<>>
    /\ scope' = NoScope
    /\ UNCHANGED notCacheVars

\* BuildCache::remove_document
remove_document(path) ==
    /\ IF path \in DOMAIN documents
       THEN /\ documents' = Without(documents, path)
            /\ documents_by_source' =
                    IF documents[path].source_name \in DOMAIN documents_by_source
                    THEN [documents_by_source EXCEPT
                            ![documents[path].source_name] = Retain(@, path)]
                    ELSE documents_by_source
       ELSE UNCHANGED <<documents, documents_by_source>>
    /\ batch' = <<>>
    /\ scope' = NoScope
    /\ UNCHANGED notCacheVars

\* BuildCache::clear
clear ==
    /\ documents' = EmptyMap
    /\ documents_by_source' = EmptyMap
    /\ batch' = <<>>
    /\ scope' = NoScope
    /\ UNCHANGED notCacheVars

\* a call of BuildCache::invalidation_scope on the cache as it is
InvalidationScope(changes) ==
    /\ scope = NoScope
    /\ batch' = changes
    /\ scope' = invalidation_scope(documents, changes)
    /\ UNCHANGED <<documents, documents_by_source, notCacheVars>>

UpdateDocument == \E doc \in CachedDocuments : update_document(doc)
RemoveDocument == \E path \in DocPaths : remove_document(path)
Clear == clear
PlanInvalidation == \E changes \in Batches(MaxBatch) : InvalidationScope(changes)

CacheNext == UpdateDocument \/ RemoveDocument \/ Clear \/ PlanInvalidation

SpecCache == CacheInit /\ [][CacheNext]_vars

-----------------------------------------------------------------------------
(* build/watch.rs: PathClassifier *)

\* Paths are sequences of components, a component a string of characters.
C_w == <<"w">>
C_docs == <<"d", "o", "c", "s">>
C_cli == <<"c", "l", "i">>
C_theme == <<"t", "h", "e", "m", "e">>
C_hidden == <<DOT, "h">>
C_other == <<"o">>
S_html == <<"h", "t", "m", "l">>
S_undox_yaml == <<"u", "n", "d", "o", "x", DOT, "y", "a", "m", "l">>
S_undox_theme_yaml ==
    <<"u", "n", "d", "o", "x", "-", "t", "h", "e", "m", "e", DOT, "y", "a", "m", "l">>

\* Path::extension of a path of components
PathExtension(path) ==
    IF path = <<>> THEN NoExtension ELSE Extension(path[Len(path)])

\* the iteration orders a HashMap over these keys can have
Orders(keys) ==
    { o \in [1..Cardinality(keys) -> keys] : \A k \in keys : \E i \in DOMAIN o : o[i] = k }

\* the loop of classify over source_dirs, in the map's iteration order
RECURSIVE ClassifyBySource(_, _, _, _)
ClassifyBySource(dirs, order, path, deleted) ==
    IF order = <<>> THEN NoChange
    ELSE IF StartsWith(path, dirs[Head(order)])
    THEN IF PathExtension(path) \in {S_md, S_markdown}
         THEN Document(Head(order), path, deleted)
         ELSE StaticFile(Head(order), path, deleted)
    ELSE ClassifyBySource(dirs, Tail(order), path, deleted)

\* classify that looks for a leading dot in the file name only
classify_hidden_file_only(dirs, theme, cfg, order, path, deleted) ==
    IF path # <<>> /\ StartsWith(path[Len(path)], <<DOT>>) THEN NoChange
    ELSE IF path = cfg THEN Config
    ELSE IF path = theme \o <<S_undox_theme_yaml>> THEN ThemeConfig
    ELSE IF StartsWith(path, theme)
    THEN IF PathExtension(path) = S_html THEN Template(path) ELSE NoChange
    ELSE ClassifyBySource(dirs, order, path, deleted)

\* PathClassifier::classify; order is the iteration order of source_dirs
classify(dirs, theme, cfg, order, path, deleted) ==
    IF \E i \in 1..Len(path) : StartsWith(path[i], <<DOT>>) THEN NoChange
    ELSE IF path = cfg THEN Config
    ELSE IF path = theme \o <<S_undox_theme_yaml>> THEN ThemeConfig
    ELSE IF StartsWith(path, theme)
    THEN IF PathExtension(path) = S_html THEN Template(path) ELSE NoChange
    ELSE ClassifyBySource(dirs, order, path, deleted)

\* the configurations of the classifier
SourceDirChoices ==
    { [docs |-> <<C_w>>],
      [docs |-> <<C_w, C_docs>>],
      [docs |-> <<C_w, C_docs>>, cli |-> <<C_w, C_cli>>],
      [docs |-> <<C_w>>, cli |-> <<C_w, C_cli>>],
      [docs |-> <<C_w, C_docs>>, cli |-> <<C_w, C_docs>>] }
ThemeDirChoices == { <<C_w, C_theme>>, <<C_w, C_docs, C_theme>> }
ConfigPathChoices ==
    { <<C_w, S_undox_yaml>>, <<C_w, C_docs, S_undox_yaml>>,
      <<C_w, C_hidden, S_undox_yaml>>, <<C_w, C_theme, S_undox_yaml>> }

\* the paths the watcher reports
ChangedDirs ==
    { <<C_w>>, <<C_w, C_docs>>, <<C_w, C_cli>>, <<C_w, C_theme>>,
      <<C_w, C_docs, C_theme>>, <<C_w, C_hidden>>, <<C_other>> }
ChangedNames ==
    { <<"a", DOT>> \o S_md, <<"a", DOT>> \o S_markdown, <<"a", DOT>> \o S_html,
      <<"a", DOT, "c", "s", "s">>, <<"a">>, <<"a", DOT, "M", "D">>,
      <<DOT, "a", DOT>> \o S_md, S_undox_yaml, S_undox_theme_yaml }
ChangedPaths == ChangedDirs \cup { d \o <<n>> : d \in ChangedDirs, n \in ChangedNames }

\* PathClassifier::new
ClassInit ==
    /\ source_dirs \in SourceDirChoices
    /\ theme_dir \in ThemeDirChoices
    /\ config_path \in ConfigPathChoices
    /\ changed = NotClassified
    /\ classified = NoChange
    /\ CacheIdle
    /\ PathIdle
    /\ PipeIdle
    /\ RestIdle

\* a call of PathClassifier::classify
Classify(path, deleted) ==
    /\ \E order \in Orders(DOMAIN source_dirs) :
            classified' = classify(source_dirs, theme_dir, config_path, order, path, deleted)
    /\ changed' = [path |-> path, deleted |-> deleted, called |-> TRUE]
    /\ UNCHANGED <<source_dirs, theme_dir, config_path, notClassVars>>

ClassifyChange == \E path \in ChangedPaths, deleted \in BOOLEAN : Classify(path, deleted)

ClassNext == ClassifyChange

SpecClassify == ClassInit /\ [][ClassNext]_vars

-----------------------------------------------------------------------------
(* Inputs of the path mapper *)

\* greatest number of directories above a discovered file
MaxDepth == 2

OutputDir == <<SLASH, "o">>

DirNames == { <<"a">>, S_index, <<"x">> \o S_index, <<"v", DOT, "1">> }

FileNames == { S_index \o <<DOT>> \o S_md,
               <<"a">> \o <<DOT>> \o S_md,
               <<"a", DOT, "b">> \o <<DOT>> \o S_md,
               S_index \o <<DOT>> \o S_markdown,
               <<"a", DOT, "c", "s", "s">>,
               <<"a">> }

\* the directory parts "d1/d2/.../" of at most n directories
RECURSIVE DirParts(_)
DirParts(n) ==
    IF n = 0 THEN { <<>> }
    ELSE DirParts(n - 1) \cup
         { d \o <<SLASH>> \o rest : d \in DirNames, rest \in DirParts(n - 1) }

\* what walk_directory passes to classify_file: relative, no hidden component
RelPaths == { d \o f : d \in DirParts(MaxDepth), f \in FileNames }

UrlPrefixes == { <<>>, <<SLASH>>, <<SLASH, "c">>, <<SLASH, "c", SLASH>>,
                 <<SLASH, "v", DOT, "1">> }

\* URL paths of documents handed to the write stage directly
RawUrls == { <<>>, <<SLASH>>, <<SLASH, SLASH>>, <<SLASH, "c", SLASH, "a">>,
             <<SLASH, SLASH, "c">>, <<"c", SLASH, "a">>,
             <<SLASH, "c", SLASH, "a", DOT, "c", "s", "s">>,
             <<SLASH, "a", DOT, "b", SLASH, "c">> }

-----------------------------------------------------------------------------
(* The path mapper as discovery and the write stage use it *)

PathInit ==
    /\ files = {}
    /\ CacheIdle
    /\ ClassIdle
    /\ PipeIdle
    /\ RestIdle
    /\ \/ /\ relPath \in RelPaths
          /\ urlPrefix \in UrlPrefixes
          /\ url = Unset
          /\ pstep = "start"
       \/ /\ relPath = Unset
          /\ urlPrefix = Unset
          /\ url \in RawUrls
          /\ pstep = "doc"

\* ResolvedSource::classify_file, document branch
DiscoverDocument ==
    /\ pstep = "start"
    /\ is_document(relPath)
    /\ url' = source_path_to_url(relPath, urlPrefix)
    /\ pstep' = "doc"
    /\ UNCHANGED <<relPath, urlPrefix, files, notPathVars>>

\* ResolvedSource::classify_file, static branch
DiscoverStatic ==
    /\ pstep = "start"
    /\ ~is_document(relPath)
    /\ url' = static_path_to_url(relPath, urlPrefix)
    /\ pstep' = "static"
    /\ UNCHANGED <<relPath, urlPrefix, files, notPathVars>>

\* WriteStage::process, for one document whose output_html is set
WriteDocument ==
    /\ pstep = "doc"
    /\ files' = files \cup {url_to_output_path(url, OutputDir)}
    /\ pstep' = "written"
    /\ UNCHANGED <<relPath, urlPrefix, url, notPathVars>>

PathNext == DiscoverDocument \/ DiscoverStatic \/ WriteDocument

SpecPaths == PathInit /\ [][PathNext]_vars

-----------------------------------------------------------------------------
(* build/pipeline *)

\* greatest number of stages of a pipeline
MaxStages == 5
\* greatest number of finalize stages of a pipeline
MaxFinalize == 2
\* greatest number of documents of a batch
MaxDocs == 3

\* Option::None of output_html
None == <<"None">>

\* Stage::name of the four stages of stages/, and a stage added from outside
TeraStage == [name |-> "tera", kind |-> "tera"]
MarkdownStage == [name |-> "markdown", kind |-> "markdown"]
TemplateStage == [name |-> "template", kind |-> "template"]
WriteStage == [name |-> "write", kind |-> "write"]
CustomStage == [name |-> "lint", kind |-> "custom"]

\* Pipeline::default_pipeline
default_pipeline == <<TeraStage, MarkdownStage, TemplateStage, WriteStage>>

\* the stages a caller adds or inserts
AddedStages == {CustomStage, TeraStage}
\* the names a caller looks up
LookupNames == {"tera", "markdown", "template", "write", "lint", "missing"}
FinalizeNames == {"css", "sitemap"}

\* ProcessingDocument::new for a document discovered at path under "/c"
NewProcessingDocument(path) ==
    [source_path |-> path,
     url_path |-> source_path_to_url(path, <<SLASH, "c">>),
     content |-> <<"raw">>,
     toc |-> FALSE,
     output_html |-> None]

\* the documents of the batches, in discovery order
BatchDocuments ==
    << NewProcessingDocument(<<"a", DOT>> \o S_md),
       NewProcessingDocument(S_index \o <<DOT>> \o S_md),
       NewProcessingDocument(<<"b", DOT, "t", "x", "t">>),
       NewProcessingDocument(<<"g", SLASH, "c", DOT>> \o S_md),
       NewProcessingDocument(<<"g", SLASH>> \o S_index \o <<DOT>> \o S_md) >>

DocBatches ==
    { SubSeq(BatchDocuments, 1, n) : n \in 0..MaxDocs }
    \cup { <<BatchDocuments[2]>> }
    \cup { <<BatchDocuments[2], BatchDocuments[1]>> }

\* the last position of the name instead of the first
Position_last(list, name) ==
    IF \E i \in 1..Len(list) : list[i].name = name
    THEN CHOOSE i \in 1..Len(list) :
            /\ list[i].name = name
            /\ \A j \in (i + 1)..Len(list) : list[j].name # name
    ELSE 0
\* Iterator::position(|s| s.name() == name), 0 for None
Position(list, name) ==
    IF \E i \in 1..Len(list) : list[i].name = name
    THEN CHOOSE i \in 1..Len(list) :
            /\ list[i].name = name
            /\ \A j \in 1..(i - 1) : list[j].name # name
    ELSE 0

\* Vec::insert(pos, x), pos counted from 0
InsertAt(list, pos, x) ==
    SubSeq(list, 1, pos) \o <<x>> \o SubSeq(list, pos + 1, Len(list))

\* a stage fails on this document whatever its collaborators do
MustFail(kind, doc) ==
    \/ kind = "markdown" /\ ~is_document(doc.source_path)
    \/ kind = "write" /\ doc.output_html = None

\* a template stage that renders the page and does not store it
Processed_template_drops_page(kind, doc) ==
    IF kind = "tera" THEN [doc EXCEPT !.content = Append(@, "tera")]
    ELSE IF kind = "markdown"
        THEN [doc EXCEPT !.content = Append(@, "markdown"), !.toc = TRUE]
    ELSE doc

\* what a stage that succeeds on a document leaves in it
Processed(kind, doc) ==
    IF kind = "tera" THEN [doc EXCEPT !.content = Append(@, "tera")]
    ELSE IF kind = "markdown"
        THEN [doc EXCEPT !.content = Append(@, "markdown"), !.toc = TRUE]
    ELSE IF kind = "template"
        THEN [doc EXCEPT !.output_html = <<"page">> \o doc.content]
    ELSE doc

\* the text of a tera::Error raised for a template: tera names the template it
\* rendered, and no stage hands it the page's URL
RenderErrorMessage(template) ==
    <<"tera rendering error: template error: Failed to render '", template, "'">>

\* the PipelineError of a stage that fails on a document
StageError(stage, doc) ==
    IF stage.kind = "tera"
        THEN [variant |-> "Tera", stage |-> stage.name,
              message |-> RenderErrorMessage("__content_render__")]
    ELSE IF stage.kind = "template"
        THEN [variant |-> "Tera", stage |-> stage.name,
              message |-> RenderErrorMessage("page.html")]
    ELSE IF stage.kind = "markdown"
        THEN IF ~is_document(doc.source_path)
             THEN [variant |-> "Stage", stage |-> "markdown",
                   message |-> <<"no format registered for extension: ">>
                               \o (IF Extension(doc.source_path) = NoExtension
                                   THEN <<"(none)">>
                                   ELSE Extension(doc.source_path))]
             ELSE [variant |-> "Stage", stage |-> "markdown",
                   message |-> <<"failed to render ">> \o doc.url_path
                               \o <<": ", "render error">>]
    ELSE IF stage.kind = "write"
        THEN IF doc.output_html = None
             THEN [variant |-> "Stage", stage |-> "write",
                   message |-> <<"document '">> \o doc.url_path
                               \o <<"' has no output HTML (was template stage run?)">>]
             ELSE [variant |-> "Io", stage |-> "write", message |-> <<"IO error: ">>]
    ELSE [variant |-> "Stage", stage |-> stage.name, message |-> <<"failed">>]

\* the log entries of one call of Stage::process that handles the documents
\* 1..n and fails on document failAt (0: on none)
ProcessLog(idx, stage, n, failAt) ==
    <<[ev |-> "process", stage |-> idx, name |-> stage.name]>>
    \o [i \in 1..n |-> [ev |-> "doc", stage |-> idx, doc |-> i,
                        failed |-> (i = failAt)]]
    \o <<[ev |-> "return", stage |-> idx, ok |-> (failAt = 0)]>>

PipeInit ==
    /\ stages \in {<<>>, default_pipeline, <<TeraStage, MarkdownStage, TemplateStage>>}
    /\ finalize_stages = <<>>
    /\ docs = <<>>
    /\ phase = "new"
    /\ stageIdx = 0
    /\ finIdx = 0
    /\ error = NoError
    /\ log = <<>>
    /\ files = {}
    /\ relPath = Unset /\ urlPrefix = Unset /\ url = Unset /\ pstep = "idle"
    /\ CacheIdle
    /\ ClassIdle
    /\ RestIdle

\* Pipeline::add_stage
AddStage ==
    /\ phase = "new"
    /\ Len(stages) < MaxStages
    /\ \E stage \in AddedStages : stages' = Append(stages, stage)
    /\ UNCHANGED <<finalize_stages, docs, phase, stageIdx, finIdx, error, log,
                   files, notPipeVars>>

\* Pipeline::insert_before
insert_before(name, stage) ==
    /\ phase = "new"
    /\ Len(stages) < MaxStages
    /\ IF Position(stages, name) = 0
       THEN phase' = "panicked" /\ stages' = stages
       ELSE /\ stages' = InsertAt(stages, Position(stages, name) - 1, stage)
            /\ phase' = phase
    /\ UNCHANGED <<finalize_stages, docs, stageIdx, finIdx, error, log,
                   files, notPipeVars>>

\* Pipeline::insert_after
insert_after(name, stage) ==
    /\ phase = "new"
    /\ Len(stages) < MaxStages
    /\ IF Position(stages, name) = 0
       THEN phase' = "panicked" /\ stages' = stages
       ELSE /\ stages' = InsertAt(stages, Position(stages, name), stage)
            /\ phase' = phase
    /\ UNCHANGED <<finalize_stages, docs, stageIdx, finIdx, error, log,
                   files, notPipeVars>>

\* a call of insert_before, of insert_after
InsertBefore == \E name \in LookupNames, stage \in AddedStages : insert_before(name, stage)
InsertAfter == \E name \in LookupNames, stage \in AddedStages : insert_after(name, stage)

\* Pipeline::add_finalize_stage
AddFinalizeStage ==
    /\ phase = "new"
    /\ Len(finalize_stages) < MaxFinalize
    /\ \E name \in FinalizeNames : finalize_stages' = Append(finalize_stages, name)
    /\ UNCHANGED <<stages, docs, phase, stageIdx, finIdx, error, log,
                   files, notPipeVars>>

\* a call of Pipeline::run on a batch
Run ==
    /\ phase = "new"
    /\ \E b \in DocBatches : docs' = b
    /\ phase' = "running"
    /\ stageIdx' = 1
    /\ finIdx' = 1
    /\ UNCHANGED <<stages, finalize_stages, error, log, files, notPipeVars>>

\* a first loop that skips a document its stage fails on and goes on
RunStage_skip_failing_document ==
    /\ phase = "running"
    /\ stageIdx <= Len(stages)
    /\ LET stage == stages[stageIdx]
           n == Len(docs)
       IN \E failAt \in 0..n :
            /\ \A i \in 1..n : i # failAt => ~MustFail(stage.kind, docs[i])
            /\ docs' = [i \in 1..n |-> IF i # failAt
                                       THEN Processed(stage.kind, docs[i])
                                       ELSE docs[i]]
            /\ files' = IF stage.kind = "write"
                        THEN files \cup { url_to_output_path(docs[i].url_path, OutputDir) :
                                            i \in (1..n) \ {failAt} }
                        ELSE files
            /\ log' = log \o
                  <<[ev |-> "process", stage |-> stageIdx, name |-> stage.name]>>
                  \o [i \in 1..n |-> [ev |-> "doc", stage |-> stageIdx, doc |-> i,
                                      failed |-> (i = failAt)]]
                  \o <<[ev |-> "return", stage |-> stageIdx, ok |-> TRUE]>>
            /\ stageIdx' = stageIdx + 1
            /\ UNCHANGED <<phase, error>>
    /\ UNCHANGED <<stages, finalize_stages, finIdx, notPipeVars>>

\* one round of the first loop of Pipeline::run: stage.process(docs, ctx)?
\* The stage handles the documents in order and returns at the first failure.
RunStage ==
    /\ phase = "running"
    /\ stageIdx <= Len(stages)
    /\ LET stage == stages[stageIdx]
           n == Len(docs)
       IN \E failAt \in 0..n :
            LET done == IF failAt = 0 THEN n ELSE failAt - 1 IN
            /\ \A i \in 1..done : ~MustFail(stage.kind, docs[i])
            /\ docs' = [i \in 1..n |-> IF i <= done
                                       THEN Processed(stage.kind, docs[i])
                                       ELSE docs[i]]
            /\ files' = IF stage.kind = "write"
                        THEN files \cup { url_to_output_path(docs[i].url_path, OutputDir) :
                                            i \in 1..done }
                        ELSE files
            /\ log' = log \o ProcessLog(stageIdx, stage,
                                        IF failAt = 0 THEN n ELSE failAt, failAt)
            /\ IF failAt = 0
               THEN /\ stageIdx' = stageIdx + 1
                    /\ UNCHANGED <<phase, error>>
               ELSE /\ phase' = "err"
                    /\ error' = StageError(stage, docs[failAt])
                    /\ UNCHANGED stageIdx
    /\ UNCHANGED <<stages, finalize_stages, finIdx, notPipeVars>>

\* a second loop that walks the finalize stages from the last to the first
RunFinalize_reversed ==
    /\ phase = "running"
    /\ stageIdx > Len(stages)
    /\ finIdx <= Len(finalize_stages)
    /\ \E ok \in BOOLEAN :
          LET at == Len(finalize_stages) + 1 - finIdx IN
          /\ log' = Append(log, [ev |-> "finalize", stage |-> at,
                                 name |-> finalize_stages[at], ok |-> ok])
          /\ IF ok
             THEN finIdx' = finIdx + 1 /\ UNCHANGED <<phase, error>>
             ELSE /\ phase' = "err"
                  /\ error' = [variant |-> "Stage", stage |-> finalize_stages[at],
                               message |-> <<"failed">>]
                  /\ UNCHANGED finIdx
    /\ UNCHANGED <<stages, finalize_stages, docs, stageIdx, files, notPipeVars>>

\* one round of the second loop of Pipeline::run: stage.finalize(ctx)?
RunFinalize ==
    /\ phase = "running"
    /\ stageIdx > Len(stages)
    /\ finIdx <= Len(finalize_stages)
    /\ \E ok \in BOOLEAN :
          /\ log' = Append(log, [ev |-> "finalize", stage |-> finIdx,
                                 name |-> finalize_stages[finIdx], ok |-> ok])
          /\ IF ok
             THEN finIdx' = finIdx + 1 /\ UNCHANGED <<phase, error>>
             ELSE /\ phase' = "err"
                  /\ error' = [variant |-> "Stage", stage |-> finalize_stages[finIdx],
                               message |-> <<"failed">>]
                  /\ UNCHANGED finIdx
    /\ UNCHANGED <<stages, finalize_stages, docs, stageIdx, files, notPipeVars>>

\* Pipeline::run returns Ok(())
RunReturn ==
    /\ phase = "running"
    /\ stageIdx > Len(stages)
    /\ finIdx > Len(finalize_stages)
    /\ phase' = "ok"
    /\ UNCHANGED <<stages, finalize_stages, docs, stageIdx, finIdx, error, log,
                   files, notPipeVars>>

PipeNext ==
    \/ AddStage \/ InsertBefore \/ InsertAfter \/ AddFinalizeStage
    \/ Run \/ RunStage \/ RunFinalize \/ RunReturn

SpecPipeline == PipeInit /\ [][PipeNext]_vars

-----------------------------------------------------------------------------
(* config/resolve.rs *)

\* greatest number of sources of a parent configuration
MaxSources == 2

\* the directory of the child's undox.yaml, and the clone cache
ChildBasePath == <<SLASH, "w">>
CacheDir == <<SLASH, "k">>

\* Location::Path and Location::Git (path: the subdirectory of the repository)
PathLocation(p) == [kind |-> "path", path |-> p, git |-> None]
GitLocation(u, sub) == [kind |-> "git", path |-> sub, git |-> u]
\* Option::None of an Option<Location>
NoLocation == [kind |-> "none", path |-> None, git |-> None]

\* SourceLocation::Local and SourceLocation::Remote
Local(l) == [variant |-> "Local", location |-> l]
Remote(l) == [variant |-> "Remote", location |-> l]

\* Path::is_relative
is_relative(p) == ~StartsWith(p, <<SLASH>>)

\* ConfigError
ConfigErr(variant, message) ==
    [ok |-> FALSE, variant |-> variant, message |-> message, config |-> <<>>,
     parent_path |-> <<>>]

\* a require_path that hands out the git URL as if it were a path
require_path_accepts_git(location) ==
    IF location.kind = "path" THEN [ok |-> TRUE, path |-> location.path]
    ELSE [ok |-> TRUE, path |-> location.git]

\* Location::require_path
require_path(location) ==
    IF location.kind = "path" THEN [ok |-> TRUE, path |-> location.path]
    ELSE [ok |-> FALSE, git_url |-> location.git]

\* resolve_location; fetched: whether GitFetcher::fetch_location succeeds
resolve_location(location, base_path, fetched) ==
    IF location.kind = "path"
    THEN [ok |-> TRUE,
          path |-> IF is_relative(location.path)
                   THEN PathJoin(base_path, location.path)
                   ELSE location.path]
    ELSE IF ~fetched THEN [ok |-> FALSE, path |-> <<>>]
    ELSE LET repo_path == PathJoin(CacheDir, <<"r">>)
         IN [ok |-> TRUE,
             path |-> IF location.path # None
                      THEN PathJoin(repo_path, location.path)
                      ELSE repo_path]

\* a loop body that rebases the local sources only
FixSource_local_only(source, parent_path) ==
    IF /\ source.location.variant = "Local"
       /\ source.location.location.kind = "path"
       /\ is_relative(source.location.location.path)
    THEN [source EXCEPT !.location.location.path = PathJoin(parent_path, @)]
    ELSE source

\* the loop body of resolve for a source that is not the child's
FixSource(source, parent_path) ==
    IF /\ source.location.location.kind = "path"
       /\ is_relative(source.location.location.path)
    THEN [source EXCEPT !.location.location.path = PathJoin(parent_path, @)]
    ELSE source

\* the overrides of the child applied to the parent's site
OverrideSite(site, overrides) ==
    IF ~overrides.some \/ ~overrides.site.some THEN site
    ELSE [repository |-> IF overrides.site.repository # None
                         THEN overrides.site.repository ELSE site.repository,
          edit_path |-> IF overrides.site.edit_path # None
                        THEN overrides.site.edit_path ELSE site.edit_path]

\* ChildConfig::resolve
resolve(self, child_base_path, fetched, file) ==
    LET parent_location == IF self.dev_parent # NoLocation THEN self.dev_parent
                           ELSE self.parent
        located == resolve_location(parent_location, child_base_path, fetched)
    IN
    IF ~located.ok THEN ConfigErr("GitFetch", "failed to fetch parent repository")
    ELSE IF file.state = "unreadable"
        THEN ConfigErr("ReadParent", "failed to read parent config")
    ELSE IF file.state = "unparsable"
        THEN ConfigErr("Validation", "failed to parse parent config")
    ELSE IF file.state = "child"
        THEN ConfigErr("ParentNotRoot", "parent config is not a root config")
    ELSE
    LET parent_root == file.root
        source_index == Position(parent_root.sources, self.name)
        content_path == require_path(self.content)
    IN
    IF source_index = 0
        THEN ConfigErr("SourceNotFound", "not found in parent config")
    ELSE IF ~content_path.ok
        THEN ConfigErr("Validation", "child config 'content' must be a path, not git")
    ELSE
    LET resolved_content_path ==
            IF is_relative(content_path.path)
            THEN PathJoin(child_base_path, content_path.path)
            ELSE content_path.path
        sources ==
            [i \in 1..Len(parent_root.sources) |->
                IF i = source_index
                THEN [parent_root.sources[i] EXCEPT
                        !.location = Local(PathLocation(resolved_content_path)),
                        !.nav = IF self.nav # None THEN self.nav ELSE @]
                ELSE FixSource(parent_root.sources[i], located.path)]
    IN [ok |-> TRUE, variant |-> "Ok", message |-> "",
        config |-> [site |-> OverrideSite(parent_root.site, self.overrides),
                    sources |-> sources,
                    theme |-> IF self.overrides.some /\ self.overrides.theme # None
                              THEN self.overrides.theme ELSE parent_root.theme,
                    markdown |-> parent_root.markdown,
                    dev |-> parent_root.dev],
        parent_path |-> located.path]

\* the child configurations resolve is called on
ChildNames == {"cli", "api"}
ParentLocations ==
    { PathLocation(<<"p">>), PathLocation(<<SLASH, "q">>),
      GitLocation(<<"u">>, None), GitLocation(<<"u">>, <<"s">>) }
DevParents == { NoLocation, PathLocation(<<"v">>) }
ContentLocations ==
    { PathLocation(<<"c">>), PathLocation(<<SLASH, "c">>), GitLocation(<<"g">>, None) }
ChildNavs == { None, <<"child-nav">> }
NoSiteOverrides == [some |-> FALSE, repository |-> None, edit_path |-> None]
ChildOverrides ==
    { [some |-> FALSE, site |-> NoSiteOverrides, theme |-> None],
      [some |-> TRUE, site |-> NoSiteOverrides, theme |-> <<"child-theme">>],
      [some |-> TRUE,
       site |-> [some |-> TRUE, repository |-> <<"child-repo">>, edit_path |-> None],
       theme |-> None] }

ChildConfigs ==
    [name : ChildNames, parent : ParentLocations, dev_parent : DevParents,
     content : ContentLocations, nav : ChildNavs, overrides : ChildOverrides]

\* the sources a parent configuration lists
ParentSourceLocations ==
    { Local(PathLocation(<<"d">>)), Local(PathLocation(<<SLASH, "a">>)),
      Remote(PathLocation(<<"e">>)), Remote(GitLocation(<<"g">>, None)) }
ParentSources ==
    [name : SourceNames, location : ParentSourceLocations, nav : {<<"parent-nav">>}]
SourceLists == UNION { [1..n -> ParentSources] : n \in 0..MaxSources }

\* a parent file that holds no root configuration
NoRoot ==
    [site |-> [repository |-> None, edit_path |-> None], sources |-> <<>>,
     theme |-> None, markdown |-> None, dev |-> None]

ParentRoots ==
    { [site |-> [repository |-> <<"parent-repo">>, edit_path |-> None],
       sources |-> l,
       theme |-> <<"parent-theme">>,
       markdown |-> <<"parent-markdown">>,
       dev |-> <<"parent-dev">>] : l \in SourceLists }

\* what reading and parsing the parent's undox.yaml can give
ParentFiles ==
    { [state |-> st, root |-> NoRoot] : st \in {"unreadable", "unparsable", "child"} }
    \cup { [state |-> "root", root |-> r] : r \in ParentRoots }

ResolveInit ==
    /\ child \in ChildConfigs
    /\ parent_file \in ParentFiles
    /\ resolved = NotResolved
    /\ PathIdle
    /\ CacheIdle
    /\ ClassIdle
    /\ PipeIdle
    /\ NavIdle
    /\ SiteIdle
    /\ LaterIdle

\* a call of ChildConfig::resolve
ResolveChild ==
    /\ resolved = NotResolved
    /\ \E fetched \in BOOLEAN :
          resolved' = resolve(child, ChildBasePath, fetched, parent_file)
    /\ UNCHANGED <<child, parent_file, notResolveVars>>

ResolveNext == ResolveChild

SpecResolve == ResolveInit /\ [][ResolveNext]_vars

-----------------------------------------------------------------------------
(* Claims about the path mapper *)

\* the URL path without its leading slashes
StripLeadingSlashes(u) ==
    LET k == CHOOSE n \in 0..Len(u) :
                 /\ \A i \in 1..n : u[i] = SLASH
                 /\ n = Len(u) \/ u[n + 1] # SLASH
    IN SubSeq(u, k + 1, Len(u))

\* the file-layout rule as the specification words it
LayoutRule(u) ==
    LET s == StripLeadingSlashes(u)
    IN IF s = <<>> THEN OutputDir \o <<SLASH>> \o S_index_html
       ELSE IF \E i \in 1..Len(s) : s[i] = DOT THEN OutputDir \o <<SLASH>> \o s
       ELSE OutputDir \o <<SLASH>> \o s \o <<SLASH>> \o S_index_html

\* C1: the write stage writes every document at the path the layout rule gives
\* for its URL: "" and "/" at index.html, a path with a dot verbatim, any
\* other path at <path>/index.html, leading slashes stripped.
C1_OutputLayout == pstep = "written" => files = {LayoutRule(url)}

C1_Witness ==
    /\ pstep = "written"
    /\ url = <<SLASH, SLASH, "c">>
    /\ files = {OutputDir \o <<SLASH, "c", SLASH>> \o S_index_html}

\* the directory of a relative path ("" for a file at the top) and its stem
ParentDir(p) ==
    IF LastIndexOf(p, SLASH) = 0 THEN <<>>
    ELSE SubSeq(p, 1, LastIndexOf(p, SLASH) - 1)

FileStem(p) ==
    LET name == FileName(p)
    IN IF ExtensionDot(name) = 0 THEN name
       ELSE SubSeq(name, 1, ExtensionDot(name) - 1)

\* a URL prefix joined with a relative URL part, no slash at the end
JoinUrl(u, d) ==
    LET base == IF u # <<>> /\ u[Len(u)] = SLASH
                THEN SubSeq(u, 1, Len(u) - 1) ELSE u
    IN IF d = <<>> THEN (IF base = <<>> THEN <<SLASH>> ELSE base)
       ELSE base \o <<SLASH>> \o d

\* C2: a document whose file stem is exactly "index" gets the URL of its
\* parent directory, whatever the directories are called, and that URL
\* ends in "/" only when it is "/".
C2_IndexCollapsesToParent ==
    (pstep = "doc" /\ relPath # Unset /\ FileStem(relPath) = S_index)
        => /\ url = JoinUrl(urlPrefix, ParentDir(relPath))
           /\ url = <<SLASH>> \/ url[Len(url)] # SLASH

\* C3: a discovered document is written at the directory-style path
\* out/<u>/<p without extension>/index.html, or out/<u>/<parent>/index.html
\* for an index file, never at a verbatim path.
C3_DocumentsGetIndexHtml ==
    (pstep = "written" /\ relPath # Unset)
        => LET part == IF FileStem(relPath) = S_index THEN ParentDir(relPath)
                       ELSE IF ParentDir(relPath) = <<>> THEN FileStem(relPath)
                       ELSE ParentDir(relPath) \o <<SLASH>> \o FileStem(relPath)
               docUrl == JoinUrl(urlPrefix, part)
           IN files = { OutputDir \o (IF docUrl = <<SLASH>> THEN <<>> ELSE docUrl)
                            \o <<SLASH>> \o S_index_html }

-----------------------------------------------------------------------------
(* Claims about the invalidation planner *)

Called == scope # NoScope

HasKind(b, kinds) == \E i \in 1..Len(b) : b[i].kind \in kinds

\* a change that adds or deletes a document, as the cache sees it
NavAffecting(c) ==
    /\ c.kind = "Document"
    /\ c.deleted \/ c.path \notin DOMAIN documents

\* C4: a batch that holds a Config or ThemeConfig change, wherever it stands
\* and whatever else the batch and the cache hold, gives Full.
C4_ConfigGivesFull ==
    (Called /\ HasKind(batch, {"Config", "ThemeConfig"})) => scope = Full

C4_Witness ==
    /\ Called
    /\ Len(batch) = 2
    /\ batch[1].kind = "Template"
    /\ batch[2].kind \in {"Config", "ThemeConfig"}
    /\ scope = Full

\* C5: a batch without Config and ThemeConfig that holds a Template change
\* gives AllDocuments, also when documents were added or deleted.
C5_TemplateGivesAllDocuments ==
    (/\ Called
     /\ ~HasKind(batch, {"Config", "ThemeConfig"})
     /\ HasKind(batch, {"Template"}))
        => scope = AllDocuments

C5_Witness ==
    /\ Called
    /\ Len(batch) = 2
    /\ NavAffecting(batch[1])
    /\ batch[2].kind = "Template"
    /\ scope = AllDocuments

\* C6: a batch without Config, ThemeConfig and Template in which some
\* document was added or deleted gives Source(s), s the source of the first
\* such change in batch order.
C6_FirstNavSource ==
    (/\ Called
     /\ ~HasKind(batch, {"Config", "ThemeConfig", "Template"})
     /\ \E i \in 1..Len(batch) : NavAffecting(batch[i]))
        => LET first == CHOOSE i \in 1..Len(batch) :
                            /\ NavAffecting(batch[i])
                            /\ \A j \in 1..(i - 1) : ~NavAffecting(batch[j])
           IN scope = [tag |-> "Source", source |-> batch[first].source_name]

C6_Witness ==
    /\ Called
    /\ Len(batch) = 2
    /\ NavAffecting(batch[1])
    /\ NavAffecting(batch[2])
    /\ batch[1].source_name # batch[2].source_name
    /\ scope = [tag |-> "Source", source |-> batch[1].source_name]

\* a modification of a cached document, or any change of a static file
ContentOnly(c) ==
    \/ c.kind = "StaticFile"
    \/ c.kind = "Document" /\ ~c.deleted /\ c.path \in DOMAIN documents

\* C7: a batch made only of modifications of cached documents and of static
\* file changes gives Files with exactly the paths of the batch, in batch
\* order; the empty batch gives Files with no path.
C7_FilesInBatchOrder ==
    (Called /\ \A i \in 1..Len(batch) : ContentOnly(batch[i]))
        => scope = [tag |-> "Files", paths |-> [i \in 1..Len(batch) |-> batch[i].path]]

C7_Witness ==
    /\ Called
    /\ Len(batch) = 2
    /\ batch[1].kind = "Document" /\ ContentOnly(batch[1])
    /\ batch[2].kind = "StaticFile" /\ batch[2].deleted
    /\ scope = [tag |-> "Files", paths |-> <<batch[1].path, batch[2].path>>]

-----------------------------------------------------------------------------
(* Claims about the change classifier *)

HiddenSegment(path) == \E i \in 1..Len(path) : path[i][1] = DOT
UnderTheme(path) == StartsWith(path, theme_dir)
UnderSource(path, s) == StartsWith(path, source_dirs[s])
IsThemeConfig(path) ==
    /\ Len(path) = Len(theme_dir) + 1
    /\ UnderTheme(path)
    /\ path[Len(path)] = S_undox_theme_yaml

\* the change a file under a source directory stands for
ContentChange(path, deleted) ==
    \E s \in DOMAIN source_dirs :
        /\ UnderSource(path, s)
        /\ classified =
              [kind |-> IF PathExtension(path) \in {S_md, S_markdown}
                        THEN "Document" ELSE "StaticFile",
               source_name |-> s, path |-> path, deleted |-> deleted]

\* C8 as stated: None for a dot segment, else Config, ThemeConfig, Template
\* for html under the theme directory, Document or StaticFile for a file
\* under a source directory, and None under none of these.
C8_ClassifyAsStated ==
    changed.called =>
        LET path == changed.path IN
        IF HiddenSegment(path) THEN classified = NoChange
        ELSE IF path = config_path THEN classified = [kind |-> "Config"]
        ELSE IF IsThemeConfig(path) THEN classified = [kind |-> "ThemeConfig"]
        ELSE IF UnderTheme(path) /\ PathExtension(path) = S_html
            THEN classified = [kind |-> "Template", path |-> path]
        ELSE IF \E s \in DOMAIN source_dirs : UnderSource(path, s)
            THEN ContentChange(path, changed.deleted)
        ELSE classified = NoChange

\* C8 amended: as stated, but any other path under the theme directory gives
\* None, also when the theme directory lies inside a source directory.
C8_Classify ==
    changed.called =>
        LET path == changed.path IN
        IF HiddenSegment(path) THEN classified = NoChange
        ELSE IF path = config_path THEN classified = [kind |-> "Config"]
        ELSE IF IsThemeConfig(path) THEN classified = [kind |-> "ThemeConfig"]
        ELSE IF UnderTheme(path)
            THEN classified = (IF PathExtension(path) = S_html
                               THEN [kind |-> "Template", path |-> path]
                               ELSE NoChange)
        ELSE IF \E s \in DOMAIN source_dirs : UnderSource(path, s)
            THEN ContentChange(path, changed.deleted)
        ELSE classified = NoChange

C8_Witness ==
    /\ changed.called
    /\ changed.deleted
    /\ ~HiddenSegment(changed.path)
    /\ UnderTheme(changed.path)
    /\ \E s \in DOMAIN source_dirs : UnderSource(changed.path, s)
    /\ PathExtension(changed.path) = S_md
    /\ classified = NoChange

-----------------------------------------------------------------------------
(* Claims about Pipeline::run *)

\* where the log has the call and the return of stage k
ProcessAt(k) == CHOOSE i \in 1..Len(log) : log[i].ev = "process" /\ log[i].stage = k
ReturnAt(k) == CHOOSE i \in 1..Len(log) : log[i].ev = "return" /\ log[i].stage = k
FinalizeAt(j) == CHOOSE i \in 1..Len(log) : log[i].ev = "finalize" /\ log[i].stage = j

Calls(ev, k) == { i \in 1..Len(log) : log[i].ev = ev /\ log[i].stage = k }

\* C9: a run in which nothing fails calls every stage once, in list order,
\* each after the stage before it has returned from the whole batch, and then
\* every finalize stage once, in registration order, after the last stage.
C9_StagesInOrder ==
    phase = "ok" =>
        /\ \A i \in 1..Len(log) :
              /\ log[i].ev \in {"process", "return"} => log[i].stage \in 1..Len(stages)
              /\ log[i].ev = "finalize" => log[i].stage \in 1..Len(finalize_stages)
        /\ \A k \in 1..Len(stages) :
              /\ Cardinality(Calls("process", k)) = 1
              /\ Cardinality(Calls("return", k)) = 1
              /\ log[ProcessAt(k)].name = stages[k].name
              /\ ProcessAt(k) < ReturnAt(k)
              /\ \A d \in 1..Len(docs) :
                    \E i \in (ProcessAt(k) + 1)..(ReturnAt(k) - 1) :
                        log[i].ev = "doc" /\ log[i].stage = k /\ log[i].doc = d
              /\ k > 1 => ReturnAt(k - 1) < ProcessAt(k)
        /\ \A j \in 1..Len(finalize_stages) :
              /\ Cardinality(Calls("finalize", j)) = 1
              /\ log[FinalizeAt(j)].name = finalize_stages[j]
              /\ j > 1 => FinalizeAt(j - 1) < FinalizeAt(j)
              /\ \A k \in 1..Len(stages) : ReturnAt(k) < FinalizeAt(j)

C9_Witness ==
    /\ phase = "ok"
    /\ stages = default_pipeline
    /\ finalize_stages = <<"css", "sitemap">>
    /\ Len(docs) = 2
    /\ [k \in 1..4 |-> log[ProcessAt(k)].name] = <<"tera", "markdown", "template", "write">>
    /\ FinalizeAt(1) = Len(log) - 1
    /\ FinalizeAt(2) = Len(log)

\* C10: when a stage fails on a document the run returns the error at once:
\* the stage handles no further document, no later stage and no finalize
\* stage is called, and the run does not go on past the failing document.
C10_FailureAborts ==
    \A i \in 1..Len(log) :
        (log[i].ev = "doc" /\ log[i].failed)
            => /\ phase = "err"
               /\ error # NoError
               /\ i = Len(log) - 1
               /\ log[Len(log)] = [ev |-> "return", stage |-> log[i].stage, ok |-> FALSE]

C10_Witness ==
    /\ phase = "err"
    /\ stages = default_pipeline
    /\ finalize_stages # <<>>
    /\ Len(docs) = 3
    /\ \E i \in 1..Len(log) :
          /\ log[i].ev = "doc" /\ log[i].failed
          /\ log[i].stage = 2 /\ log[i].doc = 2
    /\ docs[1].toc /\ ~docs[2].toc /\ ~docs[3].toc

\* the stage whose process call failed, when Pipeline::run returned its error
StageFailed == phase = "err" /\ stageIdx <= Len(stages)
FailedStage == stages[stageIdx]
\* the document the failed stage was handling
FailedDoc ==
    docs[CHOOSE i \in 1..Len(docs) :
            \E k \in 1..Len(log) :
                /\ log[k].ev = "doc" /\ log[k].stage = stageIdx
                /\ log[k].doc = i /\ log[k].failed]

\* str::contains(&str)
ContainsStr(s, t) ==
    \E i \in 0..(Len(s) - Len(t)) : SubSeq(s, i + 1, i + Len(t)) = t

\* C11: a stage never commits part of a batch: a call of Stage::process that
\* fails leaves every document of the batch (content, toc, output_html) as it
\* was when the call started.
C11_NoPartialStageCommit ==
    [][(phase = "running" /\ phase' = "err" /\ stageIdx <= Len(stages))
          => docs' = docs]_vars

\* C12: when the tera stage or the markdown stage fails on a document, the
\* PipelineError names that document's URL path; so does the failure for an
\* extension no format is registered for.
C12_ErrorNamesDocumentUrl ==
    (StageFailed /\ FailedStage.kind \in {"tera", "markdown"})
        => ContainsStr(error.message, FailedDoc.url_path)

\* C20: a run of tera, markdown, template that returns Ok leaves output_html
\* set on every document and no file in the output directory; a file is
\* written only by a step of the write stage, and a step of the write stage
\* leaves the documents as they were.
C20_WriteStageOnlyWrites ==
    /\ []((phase = "ok" /\ stages = <<TeraStage, MarkdownStage, TemplateStage>>)
            => /\ \A i \in 1..Len(docs) : docs[i].output_html # None
               /\ files = {})
    /\ [][(files' # files)
            => (phase = "running" /\ stageIdx <= Len(stages)
                /\ stages[stageIdx].kind = "write")]_vars
    /\ [][(phase = "running" /\ stageIdx <= Len(stages)
                /\ stages[stageIdx].kind = "write")
            => docs' = docs]_vars

C20_Witness ==
    /\ phase = "ok"
    /\ stages = <<TeraStage, MarkdownStage, TemplateStage>>
    /\ Len(docs) >= 2
    /\ \A i \in 1..Len(docs) : docs[i].output_html = <<"page", "raw", "tera", "markdown">>
    /\ files = {}

-----------------------------------------------------------------------------
(* Claims about ChildConfig::resolve *)

Under(dir, p) == dir \o <<SLASH>> \o p

\* the parent the child points at, and where it lies once it is local
ParentOf(c) == IF c.dev_parent # NoLocation THEN c.dev_parent ELSE c.parent
ParentDirectory(c) ==
    LET l == ParentOf(c) IN
    IF l.kind = "path"
    THEN IF l.path[1] = SLASH THEN l.path ELSE Under(ChildBasePath, l.path)
    ELSE IF l.path = None THEN Under(CacheDir, <<"r">>)
         ELSE Under(Under(CacheDir, <<"r">>), l.path)

\* the index of the source the child supplies
ChildSource == Position(parent_file.root.sources, child.name)

\* C15: a successful resolve returns the parent's sources under the same
\* names in the same order; the child's source is the local path of the
\* child's content, resolved against the child's base directory; every other
\* source with a relative path is rebased under the parent's directory, and
\* every other source (absolute path, git reference) is as the parent has it;
\* the parent's local path is returned with the configuration.
C15_SyntheticRoot ==
    resolved.ok =>
        LET src == parent_file.root.sources
            out == resolved.config.sources
        IN /\ Len(out) = Len(src)
           /\ \A i \in 1..Len(src) : out[i].name = src[i].name
           /\ out[ChildSource].location =
                 Local(PathLocation(IF child.content.path[1] = SLASH
                                    THEN child.content.path
                                    ELSE Under(ChildBasePath, child.content.path)))
           /\ \A i \in (1..Len(src)) \ {ChildSource} :
                 LET l == src[i].location.location IN
                 IF l.kind = "path" /\ l.path[1] # SLASH
                 THEN out[i].location =
                        [src[i].location EXCEPT
                            !.location.path = Under(ParentDirectory(child), l.path)]
                 ELSE out[i].location = src[i].location
           /\ resolved.parent_path = ParentDirectory(child)

C15_Witness ==
    /\ resolved.ok
    /\ child.name = "cli" /\ child.content = PathLocation(<<"c">>)
    /\ child.parent = GitLocation(<<"u">>, <<"s">>) /\ child.dev_parent = NoLocation
    /\ Len(parent_file.root.sources) = 2
    /\ parent_file.root.sources[1].location = Remote(PathLocation(<<"e">>))
    /\ parent_file.root.sources[2].name = "cli"
    /\ resolved.config.sources[1].location
          = Remote(PathLocation(<<SLASH, "k", SLASH, "r", SLASH, "s", SLASH, "e">>))
    /\ resolved.config.sources[2].location
          = Local(PathLocation(<<SLASH, "w", SLASH, "c">>))

\* resolve was called and the parent's directory was found
ParentLocated == resolved # NotResolved /\ resolved.variant # "GitFetch"
Fails(variant) == ~resolved.ok /\ resolved.variant = variant
SourceMissing == parent_file.state = "root" /\ ChildSource = 0

\* C16: resolve fails, and returns no configuration, when the parent's
\* undox.yaml cannot be read (ReadParent), cannot be parsed (Validation), is
\* a child configuration (ParentNotRoot), lists no source with the child's
\* name (SourceNotFound), or when the child's content is a git reference
\* (Validation, when the parent is a root that lists the child's source).
C16_ResolveFails ==
    (resolved # NotResolved /\ (resolved.ok \/ resolved.variant # "GitFetch")) =>
        /\ parent_file.state = "unreadable" => Fails("ReadParent")
        /\ parent_file.state = "unparsable" => Fails("Validation")
        /\ parent_file.state = "child" => Fails("ParentNotRoot")
        /\ SourceMissing => Fails("SourceNotFound")
        /\ child.content.kind = "git" =>
              /\ ~resolved.ok
              /\ (parent_file.state = "root" /\ ~SourceMissing) => Fails("Validation")

C16_Witness ==
    /\ resolved # NotResolved
    /\ child.content.kind = "git"
    /\ parent_file.state = "root"
    /\ ChildSource = 2
    /\ Fails("Validation")
    /\ resolved.message = "child config 'content' must be a path, not git"

-----------------------------------------------------------------------------
(* util.rs, and the orderings of str and Path *)

\* char::to_uppercase on the letters the inputs use
UpperChar(c) ==
    IF \E i \in 1..Len(SmallLetters) : SmallLetters[i] = c
    THEN CapitalLetters[CHOOSE i \in 1..Len(SmallLetters) : SmallLetters[i] = c]
    ELSE c

\* the characters of the inputs, in the order of their code points
CharOrder ==
    <<" ", "-", ".", SLASH, "A", "B", "C", "D", "E", "I", "M", "Z", "_",
      "a", "b", "c", "d", "e", "i", "l", "m", "n", "o", "s", "x", "z">>
CharCode(c) == CHOOSE i \in 1..Len(CharOrder) : CharOrder[i] = c

\* Ord for str: s < t
StrLess(s, t) ==
    \E k \in 1..Len(t) :
        /\ k <= Len(s) + 1
        /\ \A j \in 1..(k - 1) : s[j] = t[j]
        /\ IF k = Len(s) + 1 THEN TRUE ELSE CharCode(s[k]) < CharCode(t[k])

\* str::split('/')
RECURSIVE Split(_)
Split(s) ==
    IF ~Contains(s, SLASH) THEN <<s>>
    ELSE LET i == CHOOSE k \in 1..Len(s) :
                    s[k] = SLASH /\ \A j \in 1..(k - 1) : s[j] # SLASH
         IN <<SubSeq(s, 1, i - 1)>> \o Split(SubSeq(s, i + 1, Len(s)))

\* Ord for Path: component by component
PathLess(p, q) ==
    LET a == Split(p)
        b == Split(q)
    IN \E k \in 1..Len(b) :
        /\ k <= Len(a) + 1
        /\ \A j \in 1..(k - 1) : a[j] = b[j]
        /\ IF k = Len(a) + 1 THEN TRUE ELSE StrLess(a[k], b[k])

\* the elements of a set of strings, smallest first
SortedNames(S) ==
    [k \in 1..Cardinality(S) |->
        CHOOSE x \in S : Cardinality({ y \in S : StrLess(y, x) }) = k - 1]

\* title_case: split on '-' and '_', capitalize each word, join with ' '
RECURSIVE TitleCaseFrom(_, _)
TitleCaseFrom(s, wordStart) ==
    IF s = <<>> THEN <<>>
    ELSE IF Head(s) = "-" \/ Head(s) = "_"
        THEN <<" ">> \o TitleCaseFrom(Tail(s), TRUE)
    ELSE <<IF wordStart THEN UpperChar(Head(s)) ELSE Head(s)>>
         \o TitleCaseFrom(Tail(s), FALSE)
title_case(s) == TitleCaseFrom(s, TRUE)

-----------------------------------------------------------------------------
(* build/nav.rs *)

\* greatest number of items discovery finds
MaxItems == 3
\* number of calls of build_navigation_by_source
MaxRuns == 2

S_docs == <<"d", "o", "c", "s">>
S_cli == <<"c", "l", "i">>

\* ResolvedSource::url_prefix without a configured prefix
SourceUrlPrefix(name) == <<SLASH>> \o name

\* Path::file_stem
file_stem(p) ==
    LET name == FileName(p)
    IN IF ExtensionDot(name) = 0 THEN name
       ELSE SubSeq(name, 1, ExtensionDot(name) - 1)

\* a discovered document (title: the title of its front matter, or None)
DocumentItem(source, path, title) ==
    [kind |-> "Document", source_name |-> source, source_path |-> path,
     url_path |-> source_path_to_url(path, SourceUrlPrefix(source)),
     title |-> title]
\* a discovered static file
StaticItem(source, path) ==
    [kind |-> "Static", source_name |-> source, source_path |-> path,
     url_path |-> static_path_to_url(path, SourceUrlPrefix(source)),
     title |-> None]

\* Document::title
DocumentTitle(doc) ==
    IF doc.title # None THEN doc.title ELSE title_case(file_stem(doc.source_path))

\* NavSection::Link(NavLink) and NavSection::Section
NavLink(title, link_url, children) ==
    [kind |-> "Link", title |-> title, url |-> link_url, children |-> children]
NavSection(section, nav_items) ==
    [kind |-> "Section", title |-> section, url |-> <<>>, children |-> nav_items]

\* NavItem
NavItemPath(path) ==
    [kind |-> "Path", title |-> None, path |-> path, items |-> <<>>, map |-> EmptyMap]
NavItemTitled(map) ==
    [kind |-> "Titled", title |-> None, path |-> <<>>, items |-> <<>>, map |-> map]
NavItemSection(section, nav_items) ==
    [kind |-> "Section", title |-> section, path |-> <<>>, items |-> nav_items,
     map |-> EmptyMap]
NavItemLinkWithChildren(path, title, children) ==
    [kind |-> "LinkWithChildren", title |-> title, path |-> path, items |-> children,
     map |-> EmptyMap]

\* the seeds of a HashMap's hasher: they decide the order of iteration
HashSeeds == {1, 2}

\* HashMap::iter().next(): <<>> for None, <<key>> for the first entry
iter_next(map, seed) ==
    LET keys == SortedNames(DOMAIN map)
    IN IF DOMAIN map = {} THEN <<>>
       ELSE <<keys[((seed - 1) % Len(keys)) + 1]>>

\* the HashMap path_to_doc collected from the documents: a later document
\* replaces an earlier one with the same path
PathToDoc(doc_list) ==
    [q \in { doc_list[i].source_path : i \in 1..Len(doc_list) } |->
        doc_list[CHOOSE i \in 1..Len(doc_list) :
                    /\ doc_list[i].source_path = q
                    /\ \A j \in (i + 1)..Len(doc_list) : doc_list[j].source_path # q]]

\* convert_nav_item: <<>> for None, <<section>> for Some(section)
RECURSIVE convert_nav_item(_, _, _)
RECURSIVE convert_nav_config(_, _, _)
convert_nav_item(item, path_to_doc, seed) ==
    IF item.kind = "Section"
    THEN LET nav_items == convert_nav_config(item.items, path_to_doc, seed)
         IN IF nav_items # <<>> THEN <<NavSection(item.title, nav_items)>> ELSE <<>>
    ELSE IF item.kind = "LinkWithChildren"
    THEN IF item.path \in DOMAIN path_to_doc
         THEN LET doc == path_to_doc[item.path]
              IN <<NavLink(IF item.title # None THEN item.title ELSE DocumentTitle(doc),
                           doc.url_path,
                           convert_nav_config(item.items, path_to_doc, seed))>>
         ELSE <<>>
    ELSE IF item.kind = "Titled"
    THEN LET entry == iter_next(item.map, seed)
         IN IF entry # <<>> /\ item.map[entry[1]] \in DOMAIN path_to_doc
            THEN <<NavLink(entry[1], path_to_doc[item.map[entry[1]]].url_path, <<>>)>>
            ELSE <<>>
    ELSE IF ~EndsWith(item.path, <<SLASH>>) /\ item.path \in DOMAIN path_to_doc
         THEN <<NavLink(DocumentTitle(path_to_doc[item.path]),
                        path_to_doc[item.path].url_path, <<>>)>>
         ELSE <<>>

\* convert_nav_config
convert_nav_config(nav_config, path_to_doc, seed) ==
    IF nav_config = <<>> THEN <<>>
    ELSE convert_nav_item(Head(nav_config), path_to_doc, seed)
         \o convert_nav_config(Tail(nav_config), path_to_doc, seed)

\* NavTreeNode::default
EmptyNode == [links |-> <<>>, children |-> EmptyMap]

\* NavTreeNode::insert
RECURSIVE insert(_, _, _, _)
insert(node, path_parts, is_index, link) ==
    IF Len(path_parts) <= 1
    THEN [node EXCEPT !.links = Append(@, [is_index |-> is_index, link |-> link])]
    ELSE LET dir_name == path_parts[1]
             entry == IF dir_name \in DOMAIN node.children
                      THEN node.children[dir_name] ELSE EmptyNode
         IN [node EXCEPT !.children =
                With(@, dir_name, insert(entry, Tail(path_parts), is_index, link))]

\* the comparison by title alone
LinkLess_by_title(a, b) == StrLess(a.link.title, b.link.title)

\* the comparison of the sort of links: index files first, then by title
LinkLess(a, b) ==
    IF a.is_index /\ ~b.is_index THEN TRUE
    ELSE IF ~a.is_index /\ b.is_index THEN FALSE
    ELSE StrLess(a.link.title, b.link.title)

\* links.sort_by: slice::sort_by is a stable sort
SortLinks(list) ==
    LET n == Len(list)
        Before(i) == { j \in 1..n : \/ LinkLess(list[j], list[i])
                                     \/ (~LinkLess(list[i], list[j]) /\ j < i) }
    IN [k \in 1..n |-> list[CHOOSE i \in 1..n : Cardinality(Before(i)) = k - 1]]

\* url.trim_end_matches('/').rsplit('/').next().map(to_lowercase)
LinkStem(link_url) == ToLowercase(FileName(TrimEndMatches(link_url, <<SLASH>>)))

RECURSIVE into_nav_sections(_)
RECURSIVE MergeLinks(_, _, _)
RECURSIVE RemainingSections(_, _, _)

\* the loop of into_nav_sections over the sorted links: a link takes the
\* child directory stored under its stem, which leaves the map
MergeLinks(links, children, result) ==
    IF links = <<>> THEN [children |-> children, result |-> result]
    ELSE LET link == Head(links).link
             stem == LinkStem(link.url)
         IN IF stem \in DOMAIN children
            THEN MergeLinks(Tail(links), Without(children, stem),
                    Append(result,
                           [link EXCEPT !.children = into_nav_sections(children[stem])]))
            ELSE MergeLinks(Tail(links), children, Append(result, link))

\* the loop of into_nav_sections over the remaining children, sorted by name
RemainingSections(names, children, link_stems) ==
    IF names = <<>> THEN <<>>
    ELSE LET name == Head(names)
             rest == RemainingSections(Tail(names), children, link_stems)
         IN IF ToLowercase(name) \in link_stems THEN rest
            ELSE LET nav_items == into_nav_sections(children[name])
                 IN IF nav_items # <<>>
                    THEN <<NavSection(title_case(name), nav_items)>> \o rest
                    ELSE rest

\* NavTreeNode::into_nav_sections
into_nav_sections(node) ==
    LET links == SortLinks(node.links)
        link_stems == { LinkStem(links[i].link.url) : i \in 1..Len(links) }
        merged == MergeLinks(links, node.children, <<>>)
    IN merged.result
       \o RemainingSections(SortedNames(DOMAIN merged.children), merged.children,
                            link_stems)

\* the loop of auto_generate_nav over the sorted documents
RECURSIVE InsertAll(_, _)
InsertAll(root, doc_list) ==
    IF doc_list = <<>> THEN root
    ELSE LET doc == Head(doc_list)
             path_parts == Split(TrimEndMatches(
                                TrimStartMatches(doc.source_path, SLASH), <<SLASH>>))
         IN InsertAll(insert(root, path_parts,
                             file_stem(doc.source_path) = S_index,
                             NavLink(DocumentTitle(doc), doc.url_path, <<>>)),
                      Tail(doc_list))

DocLess(a, b) == PathLess(a.source_path, b.source_path)

\* sorted_docs.sort_by: slice::sort_by is a stable sort
SortDocs(list) ==
    LET n == Len(list)
        Before(i) == { j \in 1..n : \/ DocLess(list[j], list[i])
                                     \/ (~DocLess(list[i], list[j]) /\ j < i) }
    IN [k \in 1..n |-> list[CHOOSE i \in 1..n : Cardinality(Before(i)) = k - 1]]

\* auto_generate_nav
auto_generate_nav(doc_list) ==
    into_nav_sections(InsertAll(EmptyNode, SortDocs(doc_list)))

\* Vec of the documents of one source, in the order of the items
RECURSIVE DocsOfSource(_, _)
DocsOfSource(item_list, name) ==
    IF item_list = <<>> THEN <<>>
    ELSE IF Head(item_list).kind = "Document" /\ Head(item_list).source_name = name
        THEN <<Head(item_list)>> \o DocsOfSource(Tail(item_list), name)
    ELSE DocsOfSource(Tail(item_list), name)

\* build_navigation_by_source: source name -> navigation; a later source
\* replaces an earlier one with the same name
build_navigation_by_source(item_list, sources, seed) ==
    [name \in { sources[i].name : i \in 1..Len(sources) } |->
        LET source == sources[CHOOSE i \in 1..Len(sources) :
                                /\ sources[i].name = name
                                /\ \A j \in (i + 1)..Len(sources) : sources[j].name # name]
            doc_list == DocsOfSource(item_list, name)
        IN IF source.nav.some
           THEN convert_nav_config(source.nav.items, PathToDoc(doc_list), seed)
           ELSE auto_generate_nav(doc_list)]

\* the source paths of the inputs
P_index_md == S_index \o <<DOT>> \o S_md
P_a_md == <<"a", DOT>> \o S_md
P_b_md == <<"b", DOT>> \o S_md
P_b_d_md == <<"b", SLASH, "d", DOT>> \o S_md
P_B_d_md == <<"B", SLASH, "d", DOT>> \o S_md
P_b_d_e_md == <<"b", SLASH, "d", SLASH, "e", DOT>> \o S_md
P_c_b_md == <<"c", SLASH, "b", DOT>> \o S_md
P_c_b_d_md == <<"c", SLASH, "b", SLASH, "d", DOT>> \o S_md
P_x_md == <<"x", DOT>> \o S_md

\* what discovery can find in the two sources
ItemUniverse ==
    { DocumentItem(S_docs, P_index_md, None),
      DocumentItem(S_docs, P_a_md, <<"Z">>),
      DocumentItem(S_docs, P_b_md, None),
      DocumentItem(S_docs, P_b_d_md, None),
      DocumentItem(S_docs, P_B_d_md, None),
      DocumentItem(S_docs, P_b_d_e_md, None),
      DocumentItem(S_docs, P_c_b_md, None),
      DocumentItem(S_docs, P_c_b_d_md, None),
      StaticItem(S_docs, <<"s", DOT, "c", "s", "s">>),
      DocumentItem(S_cli, P_a_md, None) }

\* SourceConfig.nav: None, or Some(NavConfig)
NoNav == [some |-> FALSE, items |-> <<>>]
SomeNav(nav_config) == [some |-> TRUE, items |-> nav_config]

\* the navigation a configuration gives for the source docs
NavConfigs ==
    { NoNav,
      SomeNav(<<NavItemPath(P_a_md), NavItemPath(P_x_md)>>),
      SomeNav(<<NavItemTitled([t \in {<<"A">>, <<"B">>} |->
                                    IF t = <<"A">> THEN P_a_md ELSE P_b_md])>>),
      SomeNav(<<NavItemTitled([t \in {<<"A">>} |-> P_a_md]),
                NavItemSection(<<"E">>, <<NavItemPath(P_b_md),
                                          NavItemPath(<<"b", SLASH>>)>>)>>),
      SomeNav(<<NavItemLinkWithChildren(P_b_md, None,
                    <<NavItemPath(P_b_d_md), NavItemPath(P_x_md)>>),
                NavItemSection(<<"E">>, <<NavItemPath(P_x_md)>>)>>) }

ResolvedSourceLists ==
    { <<[name |-> S_docs, nav |-> n]>> : n \in NavConfigs }
    \cup { <<[name |-> S_docs, nav |-> n], [name |-> S_cli, nav |-> NoNav]>> :
                n \in NavConfigs }

\* the orders in which discovery can return a set of items
DiscoveryOrders(S) ==
    { o \in [1..Cardinality(S) -> S] : \A i, j \in DOMAIN o : o[i] = o[j] => i = j }

NavInit ==
    /\ content_items \in { S \in SUBSET ItemUniverse : Cardinality(S) <= MaxItems }
    /\ resolved_sources \in ResolvedSourceLists
    /\ nav_results = <<>>
    /\ PathIdle
    /\ CacheIdle
    /\ ClassIdle
    /\ PipeIdle
    /\ ResolveIdle
    /\ SiteIdle
    /\ LaterIdle

\* a call of build_navigation_by_source on what discovery returned
BuildNavigation ==
    /\ Len(nav_results) < MaxRuns
    /\ \E item_list \in DiscoveryOrders(content_items), seed \in HashSeeds :
          nav_results' = Append(nav_results,
                build_navigation_by_source(item_list, resolved_sources, seed))
    /\ UNCHANGED <<content_items, resolved_sources, notNavVars>>

NavNext == BuildNavigation

SpecNav == NavInit /\ [][NavNext]_vars

-----------------------------------------------------------------------------
(* Claims about the navigation *)

\* C13: navigation building is deterministic: whatever the order in which
\* discovery returned the documents, two calls of build_navigation_by_source
\* on the same documents and the same nav specs return the same trees.
C13_NavigationDeterministic ==
    \A i, j \in 1..Len(nav_results) : nav_results[i] = nav_results[j]

\* every link of a navigation, at any depth
RECURSIVE Links(_)
Links(nav) ==
    UNION { (IF nav[k].kind = "Link" THEN {nav[k]} ELSE {}) \cup Links(nav[k].children) :
                k \in 1..Len(nav) }
LinkUrls(nav) == { l.url : l \in Links(nav) }

\* every section of a navigation, at any depth
RECURSIVE Sections(_)
Sections(nav) ==
    UNION { (IF nav[k].kind = "Section" THEN {nav[k]} ELSE {})
                \cup Sections(nav[k].children) : k \in 1..Len(nav) }

\* the document e lies in a subdirectory, next to the document d, whose name
\* is the last segment of the URL of d, letter case aside
InMatchingSubdirectory(d, e) ==
    LET dp == Split(d.source_path)
        ep == Split(e.source_path)
    IN /\ d.source_name = e.source_name
       /\ Len(ep) > Len(dp)
       /\ SubSeq(ep, 1, Len(dp) - 1) = SubSeq(dp, 1, Len(dp) - 1)
       /\ ToLowercase(ep[Len(dp)]) = ToLowercase(FileName(d.url_path))

AutoSources ==
    { k \in 1..Len(resolved_sources) : ~resolved_sources[k].nav.some }

\* C14: in auto-generated navigation, when the last segment of a link's URL
\* is, letter case aside, the name of a subdirectory at the same level, the
\* documents of that subdirectory are found under the children of the link,
\* at any depth, and under no section named after the subdirectory.
C14_MergeRule ==
    \A r \in 1..Len(nav_results), k \in AutoSources :
        LET nav == nav_results[r][resolved_sources[k].name]
            documents_of == { d \in content_items :
                                /\ d.kind = "Document"
                                /\ d.source_name = resolved_sources[k].name }
        IN \A d, e \in documents_of :
             InMatchingSubdirectory(d, e) =>
                /\ \E l \in Links(nav) :
                        l.url = d.url_path /\ e.url_path \in LinkUrls(l.children)
                /\ \A n \in Sections(nav) :
                        n.title = title_case(Split(e.source_path)[Len(Split(d.source_path))])
                            => e.url_path \notin LinkUrls(n.children)

-----------------------------------------------------------------------------
(* build/builder.rs, commands/build.rs, commands/serve.rs *)

\* greatest number of builds of a run
MaxBuilds == 2

\* what the sources can hold
SiteItems ==
    { DocumentItem(S_docs, P_index_md, None),
      DocumentItem(S_docs, P_a_md, None),
      DocumentItem(S_docs, <<"a", SLASH>> \o P_index_md, None),
      StaticItem(S_docs, <<"s", DOT, "c", "s", "s">>) }

\* the text of a file: two versions of index.md, a version of a.md with a
\* template error, one version of a/index.md and of the static file
Texts(item) ==
    IF item.source_path = P_index_md THEN { <<"v1">>, <<"v2">> }
    ELSE IF item.source_path = P_a_md THEN { <<"v1">>, <<"bad">> }
    ELSE { <<"v1">> }

SourceTrees ==
    UNION { { t \in [S -> {<<"v1">>, <<"v2">>, <<"bad">>}] :
                \A item \in S : t[item] \in Texts(item) } : S \in SUBSET SiteItems }

\* the file copied from the theme's static directory
ThemeOutput == PathJoin(PathJoin(OutputDir, <<"_", "t", "h", "e", "m", "e">>), <<"t">>)

\* url_to_file_path of builder.rs
url_to_file_path(url_path, output) ==
    LET trimmed == TrimStartMatches(url_path, SLASH)
    IN IF trimmed = <<>> THEN PathJoin(output, S_index_html)
       ELSE IF Contains(trimmed, DOT) THEN PathJoin(output, trimmed)
       ELSE PathJoin(PathJoin(output, trimmed), S_index_html)

\* what write_item writes for an item: the rendered page, or the copied file
Written(item, text) ==
    IF item.kind = "Document" THEN <<"page">> \o text ELSE text

\* write_item fails on this item whatever the file system does
ItemMustFail(item, text) == item.kind = "Document" /\ text = <<"bad">>

\* the loop of build over all_items, up to the item it fails on
RECURSIVE WriteItems(_, _, _, _)
WriteItems(out_files, item_list, tree, io_fail_at) ==
    IF item_list = <<>> THEN [ok |-> TRUE, files |-> out_files]
    ELSE LET item == Head(item_list) IN
         IF io_fail_at = 1 \/ ItemMustFail(item, tree[item])
         THEN [ok |-> FALSE, files |-> out_files]
         ELSE WriteItems(With(out_files, url_to_file_path(item.url_path, OutputDir),
                              Written(item, tree[item])),
                         Tail(item_list), tree,
                         IF io_fail_at = 0 THEN 0 ELSE io_fail_at - 1)

BuildErr(step, output) == [ok |-> FALSE, step |-> step, output |-> output]

\* a build that creates the output directory before it resolves the sources
build_creates_output_first(output, tree, item_list, fails_at, io_fail_at) ==
    LET created == [exists |-> TRUE, files |-> With(output.files, ThemeOutput, <<"theme">>)]
        written == WriteItems(created.files, item_list, tree, io_fail_at)
    IN IF fails_at = "resolve_sources" THEN BuildErr("resolve_sources", created)
       ELSE IF fails_at = "Renderer::new" THEN BuildErr("Renderer::new", created)
       ELSE IF written.ok
            THEN [ok |-> TRUE, step |-> "done",
                  output |-> [exists |-> TRUE, files |-> written.files]]
            ELSE BuildErr("write_item", [exists |-> TRUE, files |-> written.files])

\* Builder::build: what it returns and what it leaves in the output directory
build(output, tree, item_list, fails_at, io_fail_at) ==
    IF fails_at = "resolve_sources" THEN BuildErr("resolve_sources", output)
    ELSE IF fails_at = "Renderer::new" THEN BuildErr("Renderer::new", output)
    ELSE LET created == [exists |-> TRUE,
                         files |-> With(output.files, ThemeOutput, <<"theme">>)]
             written == WriteItems(created.files, item_list, tree, io_fail_at)
         IN IF written.ok
            THEN [ok |-> TRUE, step |-> "done",
                  output |-> [exists |-> TRUE, files |-> written.files]]
            ELSE BuildErr("write_item", [exists |-> TRUE, files |-> written.files])

\* what can go wrong before the output directory is touched: a source that
\* does not resolve, a theme without templates
EarlyFailures == {"none", "resolve_sources", "Renderer::new"}

SiteInit ==
    /\ source_tree \in SourceTrees
    /\ output_directory = NoOutput
    /\ last_output = NoOutput
    /\ build_result = NotBuilt
    /\ build_count = 0
    /\ serving = FALSE
    /\ PathIdle
    /\ CacheIdle
    /\ ClassIdle
    /\ PipeIdle
    /\ ResolveIdle
    /\ NavIdle
    /\ LaterIdle

\* do_build: Builder::new(..).build() on the sources as they are now
DoBuild ==
    \E item_list \in DiscoveryOrders(DOMAIN source_tree), fails_at \in EarlyFailures :
      \E io_fail_at \in (IF fails_at = "none" THEN 0..Len(item_list) ELSE {0}) :
        LET r == build(output_directory, source_tree, item_list, fails_at, io_fail_at)
        IN /\ output_directory' = r.output
           /\ build_result' = [ok |-> r.ok, step |-> r.step]
           /\ last_output' = IF r.ok THEN r.output ELSE last_output
           /\ build_count' = build_count + 1

\* the configuration is a child and ChildConfig::resolve returns an error
ComposeFails ==
    /\ build_result' = [ok |-> FALSE, step |-> "ChildConfig::resolve"]
    /\ build_count' = build_count + 1
    /\ UNCHANGED <<output_directory, last_output>>

\* commands/build.rs run
BuildCommand ==
    /\ ~serving
    /\ build_count < MaxBuilds
    /\ \E composes \in BOOLEAN : IF composes THEN DoBuild ELSE ComposeFails
    /\ UNCHANGED <<source_tree, serving, notSiteVars>>

\* commands/serve.rs run, up to the start of the watcher
ServeStart ==
    /\ ~serving
    /\ build_count < MaxBuilds
    /\ \E composes \in BOOLEAN : IF composes THEN DoBuild ELSE ComposeFails
    /\ serving' = build_result'.ok
    /\ UNCHANGED <<source_tree, notSiteVars>>

\* the rebuild task of serve on WatchEvent::FilesChanged
Rebuild ==
    /\ serving
    /\ build_count < MaxBuilds
    /\ DoBuild
    /\ UNCHANGED <<source_tree, serving, notSiteVars>>

\* the text of an item of a tree, <<"absent">> when it is not there
TextOf(tree, item) == IF item \in DOMAIN tree THEN tree[item] ELSE <<"absent">>

\* somebody adds, removes or rewrites one file of a source
EditSource ==
    /\ \E t \in SourceTrees :
          /\ Cardinality({ item \in SiteItems :
                              TextOf(t, item) # TextOf(source_tree, item) }) = 1
          /\ source_tree' = t
    /\ UNCHANGED <<output_directory, last_output, build_result, build_count, serving,
                   notSiteVars>>

SiteNext == BuildCommand \/ ServeStart \/ Rebuild \/ EditSource

SpecSite == SiteInit /\ [][SiteNext]_vars

-----------------------------------------------------------------------------
(* Claims about build and serve *)

\* a step that is a build, and one that is a rebuild of serve
BuildStep == build_count' = build_count + 1
RebuildStep == serving /\ BuildStep

\* C17: a build that ends because the child configuration does not compose
\* or because a source does not resolve returns the error and leaves the
\* output directory as it was: not created, and nothing written into it.
C17_FailFast ==
    [][(BuildStep /\ build_result'.step \in {"ChildConfig::resolve", "resolve_sources"})
          => (~build_result'.ok /\ output_directory' = output_directory)]_vars

C17_Witness ==
    /\ build_count = 1
    /\ build_result = [ok |-> FALSE, step |-> "resolve_sources"]
    /\ DOMAIN source_tree = SiteItems
    /\ output_directory = NoOutput

\* C18: in watch mode, after a rebuild that failed, the output directory
\* holds exactly the files and contents of the last successful build.
C18_FailedRebuildKeepsOutput ==
    (serving /\ ~build_result.ok) => output_directory = last_output

\* the pages and static files generated from a tree
Generated(tree) ==
    [q \in { url_to_file_path(item.url_path, OutputDir) : item \in DOMAIN tree } |->
        LET item == CHOOSE it \in DOMAIN tree :
                        url_to_file_path(it.url_path, OutputDir) = q
        IN Written(item, tree[item])]

\* C19: after a successful rebuild the pages and static files of the output
\* directory are exactly those generated from the content as it is at that
\* rebuild; no file that only an earlier build produced is left.
C19_RebuildReplacesOutput ==
    [][(RebuildStep /\ build_result'.ok)
          => Without(output_directory'.files, ThemeOutput) = Generated(source_tree)]_vars

\* C28: within one build no two distinct discovered items, documents or static
\* files, are written to the same output file path, so that no item's output
\* is overwritten by another's
C28_NoOutputCollision ==
    [][(BuildStep /\ build_result'.ok)
          => \A item, other \in DOMAIN source_tree :
                item # other => url_to_file_path(item.url_path, OutputDir)
                                    # url_to_file_path(other.url_path, OutputDir)]_vars

-----------------------------------------------------------------------------
(* Claims about the construction of a pipeline *)

\* the list without its element at position i
RemoveAt(list, i) == SubSeq(list, 1, i - 1) \o SubSeq(list, i + 1, Len(list))

Named(list, name) == \E i \in 1..Len(list) : list[i].name = name

\* s stands at position i of the new list, the first stage called name right after it
PutBefore(old, new, name, s) ==
    \E i \in 1..(Len(new) - 1) :
        /\ new[i] = s
        /\ new[i + 1].name = name
        /\ \A j \in 1..(i - 1) : new[j].name # name
        /\ RemoveAt(new, i) = old

\* s stands at position i of the new list, the first stage called name right before it
PutAfter(old, new, name, s) ==
    \E i \in 2..Len(new) :
        /\ new[i] = s
        /\ new[i - 1].name = name
        /\ \A j \in 1..(i - 2) : new[j].name # name
        /\ RemoveAt(new, i) = old

\* C21: insert_before(name, s) puts s immediately before, and insert_after(name, s)
\* immediately after, the first stage called name; the stages already there keep
\* their order, none removed or duplicated; with no stage of that name the call
\* panics and the pipeline is left without s
C21_InsertAtNamedStage ==
    [][\A name \in LookupNames, s \in AddedStages :
        /\ insert_before(name, s) =>
              IF Named(stages, name) THEN PutBefore(stages, stages', name, s) /\ phase' = "new"
              ELSE phase' = "panicked" /\ stages' = stages
        /\ insert_after(name, s) =>
              IF Named(stages, name) THEN PutAfter(stages, stages', name, s) /\ phase' = "new"
              ELSE phase' = "panicked" /\ stages' = stages]_vars

\* a stage inserted before the first of two stages called tera, after an insertion
\* behind markdown
C21_Witness ==
    /\ phase = "new"
    /\ stages = <<CustomStage, TeraStage, MarkdownStage, TeraStage, TemplateStage>>

-----------------------------------------------------------------------------
(* Claims about the order and the content of the navigation *)

\* every level of a navigation: the list itself, and the children of its entries
RECURSIVE Levels(_)
Levels(nav) ==
    {nav} \cup UNION { Levels(nav[k].children) : k \in 1..Len(nav) }

\* the levels of the auto-generated navigations of all runs
AutoLevels ==
    UNION { Levels(nav_results[r][resolved_sources[k].name]) :
                r \in 1..Len(nav_results), k \in AutoSources }

\* the entry is the link of a document whose file stem is index
IsIndexLink(e) ==
    /\ e.kind = "Link"
    /\ \E d \in content_items :
          /\ d.kind = "Document"
          /\ d.url_path = e.url
          /\ file_stem(d.source_path) = S_index

ExplicitSources ==
    { k \in 1..Len(resolved_sources) : resolved_sources[k].nav.some }

\* the documents discovered for a source
DocumentsOf(name) ==
    { d \in content_items : d.kind = "Document" /\ d.source_name = name }

\* every titled item of the nav spec is a single titled link
RECURSIVE SingleTitled(_)
SingleTitled(nav_config) ==
    \A i \in 1..Len(nav_config) :
        /\ nav_config[i].kind = "Titled" => Cardinality(DOMAIN nav_config[i].map) = 1
        /\ SingleTitled(nav_config[i].items)

\* the paths of the nav spec that are paths of documents, in the order of the
\* spec, each with the depth at which the spec has it
RECURSIVE KnownPaths(_, _, _)
KnownPaths(nav_config, known, depth) ==
    IF nav_config = <<>> THEN <<>>
    ELSE LET item == Head(nav_config)
             path == IF item.kind = "Titled"
                     THEN item.map[CHOOSE t \in DOMAIN item.map : TRUE]
                     ELSE item.path
             own == IF item.kind # "Section" /\ path \in known
                    THEN << <<path, depth>> >> ELSE <<>>
         IN own \o KnownPaths(item.items, known, depth + 1)
                \o KnownPaths(Tail(nav_config), known, depth)

\* the URLs of the links of a navigation, in order, each with its depth
RECURSIVE LinkDepths(_, _)
LinkDepths(nav, depth) ==
    IF nav = <<>> THEN <<>>
    ELSE (IF Head(nav).kind = "Link" THEN << <<Head(nav).url, depth>> >> ELSE <<>>)
         \o LinkDepths(Head(nav).children, depth + 1)
         \o LinkDepths(Tail(nav), depth)

\* C23: in explicit-nav mode an item whose path is not the path of a document
\* of the source is omitted, and every item whose path is the path of a document
\* of the source appears in the result, in the order and at the nesting of the
\* nav spec, as a link to the URL of that document
C23_ExplicitNavKeepsKnownItems ==
    \A r \in 1..Len(nav_results), k \in ExplicitSources :
        LET source == resolved_sources[k]
            source_docs == DocumentsOf(source.name)
            known == KnownPaths(source.nav.items,
                                { d.source_path : d \in source_docs }, 0)
            UrlOf(path) == (CHOOSE d \in source_docs : d.source_path = path).url_path
        IN SingleTitled(source.nav.items) =>
              LinkDepths(nav_results[r][source.name], 0)
                  = [i \in 1..Len(known) |-> <<UrlOf(known[i][1]), known[i][2]>>]

\* C27: auto-generated navigation loses and duplicates nothing: each document
\* of a source without nav spec appears exactly once as a link, at some depth,
\* in the navigation of that source
C27_AutoNavLosesNothing ==
    \A r \in 1..Len(nav_results), k \in AutoSources :
        LET name == resolved_sources[k].name
            nav_links == LinkDepths(nav_results[r][name], 0)
        IN /\ \A d \in DocumentsOf(name) :
                Cardinality({ i \in 1..Len(nav_links) : nav_links[i][1] = d.url_path }) = 1
           /\ Len(nav_links) = Cardinality(DocumentsOf(name))

-----------------------------------------------------------------------------
(* build/source.rs: ResolvedSource::resolve *)

S_content == <<"c", "o", "n", "t", "e", "n", "t">>

\* the directory of the root configuration
BasePath == <<SLASH, "w">>
\* cache_dir.join(cache_key(git)): the clone of the repository
RepoCacheDir == PathJoin(CacheDir, <<"h">>)

\* Path::exists and Path::is_dir
path_exists(fs, p) == p \in DOMAIN fs
is_dir(fs, p) == p \in DOMAIN fs /\ fs[p] = "dir"

\* SourceError, and Ok(ResolvedSource)
SourceErr(variant, p) ==
    [called |-> TRUE, ok |-> FALSE, variant |-> variant, path |-> p, nav |-> <<>>]
SourceOk(nav, local_path) ==
    [called |-> TRUE, ok |-> TRUE, variant |-> "none", path |-> local_path, nav |-> nav]

\* read_to_string and serde_yaml::from_str of undox.yaml both succeed
YamlLoaded(fs, yaml, p) ==
    /\ path_exists(fs, p)
    /\ fs[p] = "file" /\ yaml.readable
    /\ yaml.valid

\* the conventional content directory is looked for before undox.yaml
content_dir_conventional_first(fs, yaml, nav, resolved_path) ==
    LET loaded == YamlLoaded(fs, yaml, PathJoin(resolved_path, S_undox_yaml))
        new_nav == IF loaded /\ nav = None /\ yaml.nav # None THEN yaml.nav ELSE nav
    IN IF is_dir(fs, PathJoin(resolved_path, S_content))
       THEN SourceOk(new_nav, PathJoin(resolved_path, S_content))
       ELSE IF loaded /\ yaml.content.kind = "path"
                /\ is_dir(fs, PathJoin(resolved_path, yaml.content.path))
       THEN SourceOk(new_nav, PathJoin(resolved_path, yaml.content.path))
       ELSE SourceOk(new_nav, resolved_path)

\* the content directory of a source with its own undox.yaml, in resolved_path
content_dir(fs, yaml, nav, resolved_path) ==
    LET loaded == YamlLoaded(fs, yaml, PathJoin(resolved_path, S_undox_yaml))
        new_nav == IF loaded /\ nav = None /\ yaml.nav # None THEN yaml.nav ELSE nav
    IN IF loaded /\ yaml.content.kind = "path"
            /\ is_dir(fs, PathJoin(resolved_path, yaml.content.path))
       THEN SourceOk(new_nav, PathJoin(resolved_path, yaml.content.path))
       ELSE IF is_dir(fs, PathJoin(resolved_path, S_content))
       THEN SourceOk(new_nav, PathJoin(resolved_path, S_content))
       ELSE SourceOk(new_nav, resolved_path)

\* the checks every arm makes of the path it resolved
CheckedDirectory(fs, resolved_path, then) ==
    IF ~path_exists(fs, resolved_path) THEN SourceErr("PathNotFound", resolved_path)
    ELSE IF ~is_dir(fs, resolved_path) THEN SourceErr("NotADirectory", resolved_path)
    ELSE then

\* ResolvedSource::resolve; fetched: whether GitFetcher::fetch_location succeeds
resolve_source(config, base_path, fs, yaml, fetched) ==
    LET location == config.location.location
    IN IF config.location.variant = "Local"
       THEN IF ~require_path(location).ok
            THEN SourceErr("LocalMustBePath", location.git)
            ELSE LET resolved_path == IF is_relative(location.path)
                                      THEN PathJoin(base_path, location.path)
                                      ELSE location.path
                 IN CheckedDirectory(fs, resolved_path, SourceOk(config.nav, resolved_path))
       ELSE IF location.kind = "path"
       THEN LET resolved_path == IF is_relative(location.path)
                                 THEN PathJoin(base_path, location.path)
                                 ELSE location.path
            IN CheckedDirectory(fs, resolved_path,
                                content_dir(fs, yaml, config.nav, resolved_path))
       ELSE IF ~fetched THEN SourceErr("Git", <<>>)
       ELSE LET resolved_path == IF location.path # None
                                 THEN PathJoin(RepoCacheDir, location.path)
                                 ELSE RepoCacheDir
            IN CheckedDirectory(fs, resolved_path,
                                content_dir(fs, yaml, config.nav, resolved_path))

\* the sources of a root configuration
SourceLocationChoices ==
    { Local(PathLocation(<<"d">>)), Local(GitLocation(<<"g">>, None)),
      Remote(PathLocation(<<"r">>)), Remote(PathLocation(<<SLASH, "r">>)),
      Remote(GitLocation(<<"g">>, None)), Remote(GitLocation(<<"g">>, <<"s">>)) }
SourceConfigs ==
    { [name |-> S_docs, nav |-> n, location |-> l] :
        n \in {None, <<"p">>}, l \in SourceLocationChoices }

\* the directory the location of a source stands for
SourceRoot(config) ==
    LET l == config.location.location
    IN IF l.kind = "git"
       THEN IF l.path = None THEN RepoCacheDir ELSE RepoCacheDir \o <<SLASH>> \o l.path
       ELSE IF Head(l.path) = SLASH THEN l.path
       ELSE BasePath \o <<SLASH>> \o l.path

\* what undox.yaml of the source can hold: unreadable, not a LocalSubdocsConfig,
\* or a LocalSubdocsConfig with or without content and nav
ChildYamls ==
    { [readable |-> r, valid |-> FALSE, content |-> NoLocation, nav |-> None] :
        r \in BOOLEAN }
    \cup { [readable |-> TRUE, valid |-> TRUE, content |-> c, nav |-> n] :
              c \in { NoLocation, PathLocation(<<"c">>), PathLocation(<<SLASH, "x">>),
                      GitLocation(<<"g">>, None) },
              n \in {None, <<"c">>} }

\* the paths resolve can look at below the directory root, and the directory /x
PathsAround(root) ==
    { root, root \o <<SLASH>> \o S_undox_yaml, root \o <<SLASH>> \o S_content,
      root \o <<SLASH, "c">>, root \o <<SLASH, "x">>, <<SLASH, "x">> }

\* the filesystems: nothing lies below a path that is not a directory
Filesystems(root) ==
    LET Consistent(a) ==
            /\ a[root] # "dir" => \A q \in PathsAround(root) \ {root, <<SLASH, "x">>} :
                                        a[q] = "none"
            /\ a[<<SLASH, "x">>] # "file"
            /\ a[root \o <<SLASH, "x">>] # "file"
    IN { [q \in { q \in PathsAround(root) : a[q] # "none" } |-> a[q]] :
            a \in { a \in [PathsAround(root) -> {"none", "file", "dir"}] : Consistent(a) } }

SourceInit ==
    /\ src_config \in SourceConfigs
    /\ fs_entries \in Filesystems(SourceRoot(src_config))
    /\ child_yaml \in ChildYamls
    /\ (SourceRoot(src_config) \o <<SLASH>> \o S_undox_yaml) \notin DOMAIN fs_entries
            => child_yaml = [readable |-> FALSE, valid |-> FALSE,
                             content |-> NoLocation, nav |-> None]
    /\ source_result = NotSourceResolved
    /\ FirstIdle
    /\ WatchIdle
    /\ CleanIdle

\* a call of ResolvedSource::resolve
ResolveSource ==
    /\ ~source_result.called
    /\ \E fetched \in BOOLEAN :
          source_result' = resolve_source(src_config, BasePath, fs_entries, child_yaml,
                                          fetched)
    /\ UNCHANGED <<src_config, fs_entries, child_yaml, notSourceVars>>

SourceNext == ResolveSource

SpecSource == SourceInit /\ [][SourceNext]_vars

-----------------------------------------------------------------------------
(* Claims about the content directory of a source *)

\* undox.yaml of the directory root is readable and declares a content path
DeclaresContentPath(root) ==
    LET p == root \o <<SLASH>> \o S_undox_yaml
    IN /\ p \in DOMAIN fs_entries /\ fs_entries[p] = "file"
       /\ child_yaml.readable /\ child_yaml.valid
       /\ child_yaml.content.kind = "path"

IsDirectory(p) == p \in DOMAIN fs_entries /\ fs_entries[p] = "dir"

\* the path p below the directory root
Below(root, p) == root \o <<SLASH>> \o TrimStartMatches(p, SLASH)
\* the path p resolved against the directory root
ResolvedAgainst(root, p) == IF Head(p) = SLASH THEN p ELSE Below(root, p)

\* the result the order of choice gives, declared being the declared directory
ChosenContent(root, declared) ==
    IF ~(root \in DOMAIN fs_entries)
    THEN ~source_result.ok /\ source_result.variant = "PathNotFound"
            /\ source_result.path = root
    ELSE IF ~IsDirectory(root)
    THEN ~source_result.ok /\ source_result.variant = "NotADirectory"
            /\ source_result.path = root
    ELSE /\ source_result.ok
         /\ source_result.path =
                IF DeclaresContentPath(root) /\ IsDirectory(declared) THEN declared
                ELSE IF IsDirectory(Below(root, S_content)) THEN Below(root, S_content)
                ELSE root

\* the source has its own configuration and its location was resolved
OwnConfigurationResolved ==
    /\ source_result.called
    /\ src_config.location.variant = "Remote"
    /\ source_result.variant # "Git"

\* C24 as stated: for a source with its own configuration the content directory
\* is R/<content path of R/undox.yaml>, a directory below R, when that file is
\* readable, declares a content path and the directory exists; otherwise
\* R/content when it exists; otherwise R. A missing R gives PathNotFound, a
\* non-directory R gives NotADirectory.
C24_ContentBelowRoot ==
    OwnConfigurationResolved =>
        LET root == SourceRoot(src_config)
        IN ChosenContent(root,
                IF DeclaresContentPath(root) THEN Below(root, child_yaml.content.path)
                ELSE root)

\* C24: the same order of choice, the declared content path being resolved
\* against R: a relative path lies below R, an absolute path is taken as it is
C24_ContentResolvedAgainstRoot ==
    OwnConfigurationResolved =>
        LET root == SourceRoot(src_config)
        IN ChosenContent(root,
                IF DeclaresContentPath(root)
                THEN ResolvedAgainst(root, child_yaml.content.path)
                ELSE root)

\* a declared relative content directory is chosen although R/content exists
C24_Witness ==
    LET root == SourceRoot(src_config)
    IN /\ OwnConfigurationResolved
       /\ DeclaresContentPath(root)
       /\ child_yaml.content.path = <<"c">>
       /\ IsDirectory(Below(root, S_content))
       /\ source_result.ok
       /\ source_result.path = Below(root, <<"c">>)

-----------------------------------------------------------------------------
(* build/watch.rs: FileWatcher, and the rebuild loop of commands/serve.rs *)

\* greatest number of calls of the debouncer callback
MaxCallbacks == 3
\* greatest number of changes, or of errors, the debouncer hands to one call
MaxChanges == 2

\* WatchEvent::FilesChanged(changes) and WatchEvent::Error, numbered as sent
FilesChanged(id, n) == [kind |-> "FilesChanged", id |-> id, changes |-> n]
WatchError(id) == [kind |-> "Error", id |-> id, changes |-> 0]

\* the events the callback sends for Ok(events), n of which classify gives a
\* change for: one event when there is a change, none otherwise
SentForChanges(next_id, n) ==
    IF n > 0 THEN <<FilesChanged(next_id, n)>> ELSE <<>>

\* the events the callback sends for Err(errors): one per error
SentForErrors(next_id, n) == [i \in 1..n |-> WatchError(next_id + i - 1)]

\* the log of what was sent: each event with whether a rebuild was running
Logged(events, state) ==
    [i \in 1..Len(events) |-> [event |-> events[i], building |-> state.pc = "building"]]

\* the loop after do_build returned, were a failed build to end it
after_build_stops_on_failure(state, ok) ==
    IF ok THEN [state EXCEPT !.pc = "recv", !.reloads = @ + 1]
    ELSE [state EXCEPT !.pc = "ended", !.failed = @ + 1]

\* the loop after do_build returned: reload_tx.send on success, a message on
\* failure, and back to watcher.recv()
after_build(state, ok) ==
    IF ok THEN [state EXCEPT !.pc = "recv", !.reloads = @ + 1]
    ELSE [state EXCEPT !.pc = "recv", !.failed = @ + 1]

\* FileWatcher::new returned Ok and the rebuild task was spawned
WatchInit ==
    /\ watch_channel = <<>>
    /\ watch_sent = <<>>
    /\ watch_received = <<>>
    /\ loop_state = [pc |-> "recv", started |-> <<>>, failed |-> 0, reloads |-> 0]
    /\ callbacks = 0
    /\ FirstIdle
    /\ SourceIdle
    /\ CleanIdle

\* the debouncer calls the callback with Ok(events); mpsc::Sender::send on the
\* unbounded channel returns at once
CallbackChanges ==
    /\ loop_state.pc # "none"
    /\ callbacks < MaxCallbacks
    /\ callbacks' = callbacks + 1
    /\ \E n \in 0..MaxChanges :
          LET events == SentForChanges(Len(watch_sent) + 1, n)
          IN /\ watch_channel' = watch_channel \o events
             /\ watch_sent' = watch_sent \o Logged(events, loop_state)
    /\ UNCHANGED <<watch_received, loop_state, notWatchVars>>

\* the debouncer calls the callback with Err(errors)
CallbackErrors ==
    /\ loop_state.pc # "none"
    /\ callbacks < MaxCallbacks
    /\ callbacks' = callbacks + 1
    /\ \E n \in 1..MaxChanges :
          LET events == SentForErrors(Len(watch_sent) + 1, n)
          IN /\ watch_channel' = watch_channel \o events
             /\ watch_sent' = watch_sent \o Logged(events, loop_state)
    /\ UNCHANGED <<watch_received, loop_state, notWatchVars>>

\* watcher.recv() returns Some(event): a rebuild starts for FilesChanged, a
\* message is printed for Error
LoopRecv ==
    /\ loop_state.pc = "recv"
    /\ watch_channel # <<>>
    /\ watch_channel' = Tail(watch_channel)
    /\ watch_received' = Append(watch_received, Head(watch_channel))
    /\ loop_state' =
          IF Head(watch_channel).kind = "FilesChanged"
          THEN [loop_state EXCEPT !.pc = "building",
                                  !.started = Append(@, Head(watch_channel).id)]
          ELSE loop_state
    /\ UNCHANGED <<watch_sent, callbacks, notWatchVars>>

\* do_build returns
RebuildReturns ==
    /\ loop_state.pc = "building"
    /\ \E ok \in BOOLEAN : loop_state' = after_build(loop_state, ok)
    /\ UNCHANGED <<watch_channel, watch_sent, watch_received, callbacks, notWatchVars>>

WatchNext == CallbackChanges \/ CallbackErrors \/ LoopRecv \/ RebuildReturns

SpecWatch == WatchInit /\ [][WatchNext]_vars

\* the rebuild task runs on its own thread, and a build returns
SpecWatchLive == SpecWatch /\ WF_vars(LoopRecv) /\ WF_vars(RebuildReturns)

-----------------------------------------------------------------------------
(* Claims about the watcher and the rebuild loop *)

IsBatch(e) == e.kind = "FilesChanged"

\* the events sent so far, in order
SentEvents == [i \in 1..Len(watch_sent) |-> watch_sent[i].event]

\* the batches received so far, in order
ReceivedBatches == SelectSeq(watch_received, IsBatch)

\* all that was sent is received or queued, once and in the order of sending;
\* every received batch started one rebuild; the loop goes on; the callback can
\* send whatever the loop is doing
QueueInOrder ==
    /\ watch_received \o watch_channel = SentEvents
    /\ loop_state.started = [i \in 1..Len(ReceivedBatches) |-> ReceivedBatches[i].id]
    /\ loop_state.pc \in {"recv", "building"}
    /\ callbacks < MaxCallbacks => ENABLED CallbackChanges /\ ENABLED CallbackErrors

\* C25: the watcher never blocks on a running rebuild: every batch it sends,
\* also while a rebuild is in progress, is queued and is later received by the
\* rebuild loop exactly once and in send order, each received batch starting
\* exactly one rebuild; a watcher error or a failed rebuild does not end the loop
C25_WatcherNeverBlocks ==
    /\ []QueueInOrder
    /\ \A k \in 1..(MaxCallbacks * MaxChanges) :
          (Len(watch_sent) >= k) ~> (Len(watch_received) >= k)

\* a batch sent while a rebuild was running has been received and has started
\* its rebuild, after an error was received and a rebuild had failed
C25_Witness ==
    /\ \E i \in 1..Len(watch_sent) :
          /\ watch_sent[i].building
          /\ IsBatch(watch_sent[i].event)
          /\ \E j \in 1..Len(loop_state.started) :
                loop_state.started[j] = watch_sent[i].event.id
    /\ \E e \in { watch_received[j] : j \in 1..Len(watch_received) } : ~IsBatch(e)
    /\ loop_state.failed >= 1

-----------------------------------------------------------------------------
(* commands/clean.rs *)

S_site == <<"_", "s", "i", "t", "e">>
S_undox_cache == <<DOT, "u", "n", "d", "o", "x", SLASH, "c", "a", "c", "h", "e">>

\* std::env::current_dir
CurrentDir == <<SLASH, "w">>

\* Path::canonicalize().ok() on a filesystem without symbolic links: the path
\* itself when it exists, None otherwise
canonicalize(dirs, p) == IF p \in dirs THEN p ELSE None

\* a relative path as the operating system resolves it
FromCurrentDir(p) == IF is_relative(p) THEN PathJoin(CurrentDir, p) ELSE p

\* the directory q lies in the directory p, or is p
Inside(p, q) == q = p \/ StartsWith(q, p \o <<SLASH>>)

\* tokio::fs::remove_dir_all
remove_dir_all(dirs, p) == { q \in dirs : ~Inside(FromCurrentDir(p), q) }

\* the site path of run
site_path(base_path, build_folder, dirs) ==
    LET found == canonicalize(dirs, PathJoin(base_path, build_folder))
    IN IF found # None THEN found ELSE S_site

\* the cache path of run
cache_path(base_path, dirs) ==
    LET found == canonicalize(dirs, PathJoin(base_path, S_undox_cache))
    IN IF found # None THEN found ELSE PathJoin(base_path, S_undox_cache)

\* run: what it returns, what it deleted, what is left; io_site and io_cache:
\* whether the two remove_dir_all calls succeed
clean(args, dirs, io_site, io_cache) ==
    IF ~args.loads THEN [state |-> "err", deleted |-> {}, dirs |-> dirs]
    ELSE IF args.config = "Child" THEN [state |-> "panicked", deleted |-> {}, dirs |-> dirs]
    ELSE LET site == site_path(args.base_path, args.output, dirs)
             site_there == FromCurrentDir(site) \in dirs
             site_removed == site_there /\ ~args.dry_run /\ io_site
             dirs1 == IF site_removed THEN remove_dir_all(dirs, site) ELSE dirs
             deleted1 == IF site_removed THEN {FromCurrentDir(site)} ELSE {}
         IN IF site_there /\ ~args.dry_run /\ ~io_site
            THEN [state |-> "err", deleted |-> {}, dirs |-> dirs]
            ELSE LET cache == cache_path(args.base_path, dirs1)
                     cache_there == cache \in dirs1
                 IN IF ~cache_there \/ args.dry_run
                    THEN [state |-> "ok", deleted |-> deleted1, dirs |-> dirs1]
                    ELSE IF ~io_cache
                    THEN [state |-> "err", deleted |-> deleted1, dirs |-> dirs1]
                    ELSE [state |-> "ok", deleted |-> deleted1 \cup {cache},
                          dirs |-> remove_dir_all(dirs1, cache)]

\* the configurations and arguments: the directory of the configuration file,
\* site.output, --dry-run, root or child configuration, whether it loads
CleanArgs ==
    [base_path : {CurrentDir, <<SLASH, "p">>},
     output : {S_site, <<"o">>, <<SLASH, "a">>},
     dry_run : BOOLEAN,
     config : {"Root", "Child"},
     loads : BOOLEAN]

\* the directories that can exist when clean runs with these arguments
CleanDirs(args) ==
    { PathJoin(args.base_path, args.output), PathJoin(CurrentDir, S_site),
      PathJoin(args.base_path, S_undox_cache),
      PathJoin(args.base_path, <<"s", "r", "c">>) }

CleanInit ==
    /\ clean_args \in CleanArgs
    /\ clean_fs \in SUBSET CleanDirs(clean_args)
    /\ clean_deleted = {}
    /\ clean_state = "start"
    /\ FirstIdle
    /\ SourceIdle
    /\ WatchIdle

\* UndoxCommand::Clean
Clean ==
    /\ clean_state = "start"
    /\ \E io_site, io_cache \in BOOLEAN :
          LET r == clean(clean_args, clean_fs, io_site, io_cache)
          IN /\ clean_state' = r.state
             /\ clean_deleted' = r.deleted
             /\ clean_fs' = r.dirs
    /\ UNCHANGED <<clean_args, notCleanVars>>

CleanNext == Clean

SpecClean == CleanInit /\ [][CleanNext]_vars

-----------------------------------------------------------------------------
(* Claims about the clean command *)

\* the configured output directory resolved against the directory of the
\* configuration file, and the cache folder of that directory
GeneratedSiteFolder ==
    IF Head(clean_args.output) = SLASH THEN clean_args.output
    ELSE clean_args.base_path \o <<SLASH>> \o clean_args.output
CacheFolder == clean_args.base_path \o <<SLASH>> \o S_undox_cache

\* C26: whatever the filesystem and the root configuration, clean deletes only
\* the generated site folder and the undox cache folder, and no other path
C26_CleanDeletesOnlyGenerated ==
    [][\A d \in clean_fs \ clean_fs' :
            Inside(GeneratedSiteFolder, d) \/ Inside(CacheFolder, d)]_vars

-----------------------------------------------------------------------------
(* build/source.rs: discovery *)

\* the directories walk_directory does not enter
SkippedDirectories ==
    { <<"n", "o", "d", "e", "_", "m", "o", "d", "u", "l", "e", "s">>,
      <<"_", "_", "p", "y", "c", "a", "c", "h", "e", "_", "_">>,
      <<"t", "a", "r", "g", "e", "t">> }

\* walk_directory and classify_file for the file at the components rel below the
\* directory of a source: what discover_content yields it as, "skipped" when
\* the walk does not reach it
discovered_as(rel) ==
    IF \E i \in 1..Len(rel) : StartsWith(rel[i], <<DOT>>) THEN "skipped"
    ELSE IF \E i \in 1..(Len(rel) - 1) : rel[i] \in SkippedDirectories THEN "skipped"
    ELSE IF is_document(rel[Len(rel)]) THEN "Document"
    ELSE "StaticFile"

-----------------------------------------------------------------------------
(* Claims about the classifier and discovery *)

\* the sources whose directory the classified path lies in
SourcesAbove ==
    { name \in DOMAIN source_dirs :
        /\ Len(changed.path) > Len(source_dirs[name])
        /\ SubSeq(changed.path, 1, Len(source_dirs[name])) = source_dirs[name] }

\* C29: the classifier agrees with discovery: for every file under the
\* directory of a source, classify returns a Document change exactly when
\* discovery yields the file as a Document, a StaticFile change exactly when
\* discovery yields it as a StaticFile, and None exactly when discovery skips it
C29_ClassifierAgreesWithDiscovery ==
    changed.called =>
        \A name \in SourcesAbove :
            LET rel == SubSeq(changed.path, Len(source_dirs[name]) + 1, Len(changed.path))
                found == discovered_as(rel)
            IN /\ classified.kind = "Document" <=> found = "Document"
               /\ classified.kind = "StaticFile" <=> found = "StaticFile"
               /\ classified.kind = "None" <=> found = "skipped"

-----------------------------------------------------------------------------
(* Claims about the document lists of the cache *)

\* BuildCache::document_count
document_count == Cardinality(DOMAIN documents)

\* the list documents_by_source keeps for a source, empty when it keeps none
TrackedPaths(name) ==
    IF name \in DOMAIN documents_by_source THEN documents_by_source[name] ELSE <<>>

\* C30: after any sequence of update_document, remove_document and clear, the
\* list of each source in documents_by_source holds exactly the paths of the
\* cached documents of that source, each path once, and document_count is the
\* number of distinct cached paths
C30_DocumentListsMatchCache ==
    /\ \A name \in SourceNames :
          LET list == TrackedPaths(name)
          IN /\ { list[i] : i \in 1..Len(list) }
                    = { path \in DOMAIN documents : documents[path].source_name = name }
             /\ \A i, j \in 1..Len(list) : list[i] = list[j] => i = j
    /\ document_count = Cardinality(UNION { { TrackedPaths(name)[i] :
                                                i \in 1..Len(TrackedPaths(name)) } :
                                            name \in SourceNames })

====
